---- MODULE Spec2Model ----
(***************************************************************************)
(* Connection lifecycle and request orchestration of the WhatsApp bridge   *)
(* (backend/whatsapp/services/service.ts), the session store              *)
(* (sessionManager) and the phone normalisation (utils/utils.ts).          *)
(*                                                                         *)
(* The module-level variables of service.ts are the state.  Every          *)
(* callback of setupClientEventHandlers, every exported operation and      *)
(* every continuation of an async function after a real suspension (a      *)
(* timer, a call into the session handle, file I/O) is one action.         *)
(* Results of calls into whatsapp-web.js (destroy, initialize, pupPage,    *)
(* evaluate, getState, sendMessage) are inputs chosen with \E.             *)
(*                                                                         *)
(* The callbacks of setupClientEventHandlers are taken to be registered on *)
(* every handle the service holds, so that an event can reach them.  In    *)
(* service.ts only restoreSession registers them (line 442); getClient     *)
(* (lines 571-617) constructs the handle without them.                     *)
(***************************************************************************)
EXTENDS Integers, Sequences, FiniteSets, TLC

\* ---------------------------------------------------------------- bounds
\* Number of sendMessage calls submitted to handleRequest in one behaviour.
MaxOps == 2
\* Cap on session handles constructed and not destroyed at the same time.
MaxHandles == 2
\* Cap on attemptSessionRestore calls in flight at the same time.
MaxRestores == 1

\* ------------------------------------------------------ program constants
MAX_RECONNECT_ATTEMPTS == 5
MAX_SESSION_RESTORE_ATTEMPTS == 3
\* RECONNECT_BASE_DELAY, RECONNECT_MAX_DELAY, RECONNECT_JITTER (ms)
RECONNECT_BASE_DELAY == 5000
RECONNECT_MAX_DELAY == 30000
RECONNECT_JITTER == 1000
\* MAX_BACKUPS of sessionManager
MAX_BACKUPS == 5
\* CONTACT_CACHE_DURATION (ms)
CONTACT_CACHE_DURATION == 300000
\* maxRetries of resolveContactJid
MaxRetries == 3
\* validation probes per reconnection attempt (while ... validationRetries < 3)
MAX_VALIDATION_RETRIES == 3

\* saveSession calls, and milliseconds Date.now() advances, in one behaviour
\* of successive saves.
MaxSaves == 7
MaxClock == 5
\* The same two, in one behaviour of the whole session store.
MaxStoreSaves == 3
MaxStoreClock == 1
\* Inputs of normalizeIndianNumber: spaces on either side, characters after
\* the prefix.
MaxPad == 1
MaxBody == 11
\* Attempts of one recovery run that are counted; the count stops there.
MaxRunAttempts == 6
\* messages schedulePersistentMessage accepts, and the latest time of the scheduler
MaxMsgs == 2
MaxSchedClock == 3
\* restarts of the process in one behaviour
MaxBoots == 2
\* getContacts calls that throw in a row
MaxFetchFailures == 3
\* The same two as MaxMsgs and MaxSchedClock, for the scheduler on top of the service.
MaxGateMsgs == 1
MaxGateClock == 1

Ops == 1..MaxOps

VARIABLES
    \* service.ts module state
    client,                 \* "null" | "handle"
    isClientReady,
    lastQrDataUrl,          \* "null" | "url"
    lastSessionState,       \* "null" | "auth"   ({isAuthenticated: true, ...})
    contactCache,           \* "null" | "built"
    reconnectAttempts,
    isReconnecting,
    isCleaningUp,
    pendingRequests,        \* sequence of queued operations (PendingRequest[])
    sessionRestoreAttempts,
    saveTimer,              \* debounce timer of saveSessionDebounced is armed
    \* session store on disk (sessionManager)
    sessionFile,            \* live session file exists
    invalidatedBackup,      \* an invalidated-session-* backup exists
    \* the external session handles
    liveHandles,            \* handles constructed and not destroyed
    \* attemptReconnect: position and locals of the running call
    rcPc,                   \* "idle" | "sleep" | "destroy" | "validate" | "probe" | "retryWait" | "drain"
    validationRetries,
    requestsToProcess,      \* rest of the snapshot taken at the drain
    draining,               \* operation the drain loop awaits, 0 if none
    rcOutcome,              \* how the last finished call ended: "success" | "exhausted"
    handleFault,            \* a teardown or probe call on the handle failed in this call
    \* attemptSessionRestore / restoreSession calls in flight
    rsInit,                 \* awaiting client.initialize()
    rsWait,                 \* awaiting ready / qr / auth_failure / 30 s timeout
    rsDelay,                \* awaiting SESSION_RESTORE_DELAY before the retry
    \* callers of sendMessage
    nextOp,                 \* next operation to be submitted
    opState,                \* "new" | "queued" | "resolving" | "sending" | "resolved" | "rejected"
    opError,                \* error the caller's promise was rejected with
    opRoute,                \* "none" | "gate" (run by handleRequest) | "drain"
    \* getMessages-like operations, which do not go through handleRequest
    directPc,               \* "idle" | "calling": a call on the handle is awaited
    \* observation
    lastEvent,              \* the latest client event with the states around it
    runAttempts,            \* loop iterations the running attemptReconnect call has begun
    \* a call of a pure function: its name and arguments, and what it returned
    fnCall,
    fnResult,
    \* sessionManager: the files under SESSION_DIR, with their contents
    sessionData,            \* content of SESSION_FILE, NoFile when it does not exist
    backupDir,              \* files of SESSION_BACKUP_DIR: set of [name, data]
    clock,                  \* Date.now()
    sessionsSaved,          \* saveSession calls so far; call n writes session n
    \* persistent scheduled messages
    running,                \* the process is up
    scheduledDb,            \* content of SCHEDULED_DB_PATH: sequence of [id, sendAt]
    timers,                 \* messages with an armed setTimeout of scheduleSendJob
    jobPc,                  \* per message, the fired callback: "idle" | "send" | "load" | "save"
    jobAll,                 \* per message, `all` as the callback loaded it
    jobOp,                  \* per message, the operation its sendMessage submitted, 0 if none
    spCall,                 \* the schedulePersistentMessage call in flight
    spReturn,               \* how the last call ended: "none" | "throw" | "success"
    schedNow,               \* Date.now() of the scheduler
    nextMsg,                \* messages scheduled so far, plus one
    sendCount,              \* per message, the sendMessage calls made for it
    boots,                  \* restarts of the process so far
    \* observation of the contact cache
    staleFetch,             \* operations whose getContacts was in flight when the cache was cleared
    cacheStale              \* the cache holds the contacts of such a fetch

svcVars == <<client, isClientReady, lastQrDataUrl, lastSessionState, contactCache,
             reconnectAttempts, isReconnecting, isCleaningUp, pendingRequests,
             sessionRestoreAttempts, saveTimer>>
storeVars == <<sessionFile, invalidatedBackup>>
rcVars == <<rcPc, validationRetries, requestsToProcess, draining, rcOutcome, handleFault>>
rsVars == <<rsInit, rsWait, rsDelay>>
opVars == <<nextOp, opState, opError, opRoute>>
fnVars == <<fnCall, fnResult>>
fsVars == <<sessionData, backupDir, clock, sessionsSaved>>
schedVars == <<running, scheduledDb, timers, jobPc, jobAll, jobOp, spCall, spReturn,
               schedNow, nextMsg, sendCount, boots>>
cacheVars == <<staleFetch, cacheStale>>
auxVars == <<lastEvent, runAttempts, fnVars, fsVars, schedVars, cacheVars>>
vars == <<svcVars, storeVars, liveHandles, rcVars, rsVars, opVars, directPc, auxVars>>

NoFile == 0
NoCall == [fn |-> "none"]
\* fnResult: <<>> before the function returned, <<v>> after it returned v.
NoResult == <<>>
NoEvent == [event |-> "none", from |-> "none", to |-> "none", recovering |-> FALSE]

InitService ==
    /\ client = "null"
    /\ isClientReady = FALSE
    /\ lastQrDataUrl = "null"
    /\ lastSessionState = "null"
    /\ contactCache = "null"
    /\ reconnectAttempts = 0
    /\ isReconnecting = FALSE
    /\ isCleaningUp = FALSE
    /\ pendingRequests = <<>>
    /\ sessionRestoreAttempts = 0
    /\ saveTimer = FALSE
    /\ sessionFile = FALSE
    /\ invalidatedBackup = FALSE
    /\ liveHandles = 0
    /\ rcPc = "idle"
    /\ validationRetries = 0
    /\ requestsToProcess = <<>>
    /\ draining = 0
    /\ rcOutcome = "none"
    /\ handleFault = FALSE
    /\ rsInit = 0
    /\ rsWait = 0
    /\ rsDelay = 0
    /\ nextOp = 1
    /\ opState = [o \in Ops |-> "new"]
    /\ opError = [o \in Ops |-> "none"]
    /\ opRoute = [o \in Ops |-> "none"]
    /\ directPc = "idle"
    /\ lastEvent = NoEvent
    /\ runAttempts = 0

\* The session directories as the module creates them: empty.
InitStore ==
    /\ sessionData = NoFile
    /\ backupDir = {}
    /\ clock = 0
    /\ sessionsSaved = 0

Msgs == 1..MaxMsgs
NoSchedule == [pc |-> "idle", msg |-> [id |-> 0, sendAt |-> 0], all |-> <<>>]

\* The process is up, SCHEDULED_DB_PATH does not exist yet (it loads as []).
InitSched ==
    /\ running = TRUE
    /\ scheduledDb = <<>>
    /\ timers = {}
    /\ jobPc = [m \in Msgs |-> "idle"]
    /\ jobAll = [m \in Msgs |-> <<>>]
    /\ jobOp = [m \in Msgs |-> 0]
    /\ spCall = NoSchedule
    /\ spReturn = "none"
    /\ schedNow = 0
    /\ nextMsg = 1
    /\ sendCount = [m \in Msgs |-> 0]
    /\ boots = 0
    /\ staleFetch = {}
    /\ cacheStale = FALSE

Init ==
    /\ InitService
    /\ InitStore
    /\ InitSched
    /\ fnCall = NoCall
    /\ fnResult = NoResult

\* ------------------------------------------------------------------------
\* The connection state of spec section 3, read off the service's variables.
ConnState(c, ready, session, qr, reconnecting) ==
    IF c = "null" THEN "Uninitialized"
    ELSE IF reconnecting THEN "Disconnected"
    ELSE IF ready THEN "Ready"
    ELSE IF session = "auth" THEN "Authenticated"
    ELSE IF qr = "url" THEN "AwaitingScan"
    ELSE "Connecting"

ConnectionState ==
    ConnState(client, isClientReady, lastSessionState, lastQrDataUrl, isReconnecting)

\* lastEvent' for an event handler: the event with the states around it.
Record(ev) ==
    lastEvent' = [event |-> ev, from |-> ConnectionState,
                  to |-> ConnState(client', isClientReady', lastSessionState',
                                   lastQrDataUrl', isReconnecting'),
                  recovering |-> isReconnecting']

\* runAttempts' for a step of the recovery loop: an iteration begins when the
\* loop enters its backoff sleep; the first one of a call starts the count.
CountAttempt ==
    runAttempts' =
        IF rcPc' = "sleep" /\ rcPc # "sleep"
        THEN IF rcPc = "idle" THEN 1
             ELSE IF runAttempts < MaxRunAttempts THEN runAttempts + 1
             ELSE runAttempts
        ELSE runAttempts

\* An event handler ran and lastEvent observed it.
Observed(ev) == Record(ev) /\ UNCHANGED <<runAttempts, fnVars, fsVars, schedVars, cacheVars>>

\* A step of the recovery loop ran and runAttempts observed it.
Counted == CountAttempt /\ UNCHANGED <<lastEvent, fnVars, fsVars, schedVars, cacheVars>>

\* ------------------------------------------------------------ session store
\* invalidateSession: back the live file up as invalidated-session-*, unlink it.
InvalidateSession ==
    /\ invalidatedBackup' = (invalidatedBackup \/ sessionFile)
    /\ sessionFile' = FALSE

\* ------------------------------------------------------------------ getClient
\* getClient: construct a handle when there is none.
GetClientGuard == client = "null" => liveHandles < MaxHandles
GetClient ==
    IF client = "null"
    THEN /\ client' = "handle"
         /\ liveHandles' = liveHandles + 1
    ELSE UNCHANGED <<client, liveHandles>>

\* initializeWhatsAppOnStartup: the first getClient().
Initialize ==
    /\ client = "null"
    /\ GetClientGuard
    /\ GetClient
    /\ UNCHANGED <<isClientReady, lastQrDataUrl, lastSessionState, contactCache,
                   reconnectAttempts, isReconnecting, isCleaningUp, pendingRequests,
                   sessionRestoreAttempts, saveTimer>>
    /\ UNCHANGED <<storeVars, rcVars, rsVars, opVars, directPc>>

\* ------------------------------------------------------- attemptSessionRestore
Restores == rsInit + rsWait + rsDelay

\* What a resolved-false restoreSession leads to: the retry delay, or giving up.
RetryDelay(sra) == IF sra < MAX_SESSION_RESTORE_ATTEMPTS THEN 1 ELSE 0

\* attemptSessionRestore up to its first suspension, for the results dirExists
\* of fs.existsSync(sessionDir) and fresh of sessionAge < 24 h.  The value is
\* [sra, construct, init, delay]: the new attempt counter, whether restoreSession
\* stored a new Client in `client`, and the calls added to "init" and "delay".
AttemptSessionRestore(dirExists, fresh) ==
    IF sessionRestoreAttempts >= MAX_SESSION_RESTORE_ATTEMPTS
    THEN [sra |-> sessionRestoreAttempts, construct |-> FALSE, init |-> 0, delay |-> 0]
    ELSE LET sra == sessionRestoreAttempts + 1 IN
         IF ~dirExists
         THEN [sra |-> sra, construct |-> FALSE, init |-> 0, delay |-> RetryDelay(sra)]
         ELSE IF lastSessionState = "auth" /\ fresh
         THEN [sra |-> sra, construct |-> FALSE, init |-> 0, delay |-> 0]
         ELSE [sra |-> sra, construct |-> TRUE, init |-> 1, delay |-> 0]

\* The inputs under which one more attemptSessionRestore stays within the caps.
RestoreInputs ==
    {in \in [dirExists : BOOLEAN, fresh : BOOLEAN] :
        LET r == AttemptSessionRestore(in.dirExists, in.fresh) IN
        /\ r.construct => liveHandles < MaxHandles
        /\ Restores + r.init + r.delay <= MaxRestores}

\* attemptReconnect without the check of isReconnecting: each call starts a
\* loop of its own.
AttemptReconnectUnguarded ==
    /\ isReconnecting' = TRUE
    /\ reconnectAttempts' = 1
    /\ rcPc' = "sleep"
    /\ rcOutcome' = "none"
    /\ handleFault' = FALSE
    /\ UNCHANGED <<validationRetries, requestsToProcess, draining>>

\* ------------------------------------------------------------- attemptReconnect
\* attemptReconnect up to its first suspension (the backoff sleep).
AttemptReconnect ==
    IF isReconnecting
    THEN UNCHANGED <<isReconnecting, reconnectAttempts, rcVars>>
    ELSE /\ isReconnecting' = TRUE
         /\ reconnectAttempts' = 1
         /\ rcPc' = "sleep"
         /\ rcOutcome' = "none"
         /\ handleFault' = FALSE
         /\ UNCHANGED <<validationRetries, requestsToProcess, draining>>

\* -------------------------------------------------- setupClientEventHandlers
\* A handle that exists can emit an event.
CanEmit == liveHandles > 0

\* client.on('session'): arm the debounced save, remember the session.
OnSession ==
    /\ CanEmit
    /\ saveTimer' = TRUE
    /\ lastSessionState' = "auth"
    /\ contactCache' = "null"
    /\ UNCHANGED <<client, isClientReady, lastQrDataUrl, reconnectAttempts,
                   isReconnecting, isCleaningUp, pendingRequests, sessionRestoreAttempts>>
    /\ UNCHANGED <<storeVars, liveHandles, rcVars, rsVars, opVars, directPc>>

\* saveSessionDebounced's timer fires: saveSession writes the live file
\* (ok: the write succeeded).
SaveTimerFires ==
    /\ saveTimer
    /\ saveTimer' = FALSE
    /\ \E ok \in BOOLEAN : sessionFile' = (sessionFile \/ ok)
    /\ UNCHANGED <<client, isClientReady, lastQrDataUrl, lastSessionState, contactCache,
                   reconnectAttempts, isReconnecting, isCleaningUp, pendingRequests,
                   sessionRestoreAttempts>>
    /\ UNCHANGED <<invalidatedBackup, liveHandles, rcVars, rsVars, opVars, directPc>>

\* client.on('authenticated')
OnAuthenticated ==
    /\ CanEmit
    /\ lastSessionState' = "auth"
    /\ contactCache' = "null"
    /\ UNCHANGED <<client, isClientReady, lastQrDataUrl, reconnectAttempts,
                   isReconnecting, isCleaningUp, pendingRequests,
                   sessionRestoreAttempts, saveTimer>>
    /\ UNCHANGED <<storeVars, liveHandles, rcVars, rsVars, opVars, directPc>>

\* The non-LOGOUT branch shared by 'auth_failure' and 'disconnected':
\* attemptSessionRestore().  k restoreSession calls listening on the emitting
\* handle resolve false (authFailureHandler; 0 for 'disconnected').
RestoreBranch(k) ==
    \E in \in RestoreInputs :
        LET r == AttemptSessionRestore(in.dirExists, in.fresh) IN
        /\ sessionRestoreAttempts' = r.sra
        /\ client' = IF r.construct THEN "handle" ELSE client
        /\ liveHandles' = IF r.construct THEN liveHandles + 1 ELSE liveHandles
        /\ rsInit' = rsInit + r.init
        /\ rsWait' = rsWait - k
        /\ rsDelay' = rsDelay + r.delay + k * RetryDelay(r.sra)
        /\ UNCHANGED <<lastSessionState, storeVars>>

\* A LOGOUT handled like any other reason.
LogoutBranchAsOther(k) == RestoreBranch(k)

\* The LOGOUT branch: invalidateSession(); lastSessionState = null.
LogoutBranch(k) ==
    /\ InvalidateSession
    /\ lastSessionState' = "null"
    /\ rsWait' = rsWait - k
    /\ rsDelay' = rsDelay + k * RetryDelay(sessionRestoreAttempts)
    /\ UNCHANGED <<sessionRestoreAttempts, client, liveHandles, rsInit>>

\* client.on('auth_failure', msg)
OnAuthFailure(msg) ==
    /\ CanEmit
    /\ isClientReady' = FALSE
    /\ reconnectAttempts' = 0
    /\ contactCache' = "null"
    /\ \E k \in 0..rsWait :
        IF msg = "LOGOUT" THEN LogoutBranch(k) ELSE RestoreBranch(k)
    /\ UNCHANGED <<lastQrDataUrl, isReconnecting, isCleaningUp, pendingRequests, saveTimer>>
    /\ UNCHANGED <<rcVars, opVars, directPc>>

\* client.on('disconnected', reason)
OnDisconnected(reason) ==
    /\ CanEmit
    /\ isClientReady' = FALSE
    /\ contactCache' = "null"
    /\ IF reason = "LOGOUT" THEN LogoutBranch(0) ELSE RestoreBranch(0)
    /\ UNCHANGED <<lastQrDataUrl, reconnectAttempts, isReconnecting, isCleaningUp,
                   pendingRequests, saveTimer>>
    /\ UNCHANGED <<rcVars, opVars, directPc>>

\* client.on('ready'); k restoreSession calls listening on the emitting handle
\* run their readyHandler and resolve true.
OnReady ==
    /\ CanEmit
    /\ isClientReady' = TRUE
    /\ reconnectAttempts' = 0
    /\ lastQrDataUrl' = "null"
    /\ lastSessionState' = "auth"
    /\ \E k \in 0..rsWait :
        /\ rsWait' = rsWait - k
        /\ sessionRestoreAttempts' = IF k > 0 THEN 0 ELSE sessionRestoreAttempts
    /\ UNCHANGED <<client, contactCache, isReconnecting, isCleaningUp,
                   pendingRequests, saveTimer>>
    /\ UNCHANGED <<storeVars, liveHandles, rcVars, rsInit, rsDelay, opVars,
                   directPc>>

\* A qr handler that never ignores the event.
QrNeverIgnored == FALSE

\* The qr handler's test `!lastSessionState || !lastSessionState.isAuthenticated`
\* fails: a session is remembered and the event is ignored.
QrIgnored == lastSessionState = "auth"

\* client.on('qr'): ignored while a session is remembered; otherwise the live
\* session is invalidated and the QR image stored when toDataURL succeeds (ok).
\* k restoreSession calls listening on the emitting handle run their qrHandler.
OnQr ==
    /\ CanEmit
    /\ IF ~QrIgnored
       THEN /\ isClientReady' = FALSE
            /\ InvalidateSession
            /\ \E ok \in BOOLEAN : lastQrDataUrl' = IF ok THEN "url" ELSE lastQrDataUrl
       ELSE UNCHANGED <<isClientReady, storeVars, lastQrDataUrl>>
    /\ \E k \in 0..rsWait :
        /\ rsWait' = rsWait - k
        /\ rsDelay' = IF ~QrIgnored
                      THEN rsDelay + k * RetryDelay(sessionRestoreAttempts)
                      ELSE rsDelay
    /\ UNCHANGED <<client, lastSessionState, contactCache, reconnectAttempts,
                   isReconnecting, isCleaningUp, pendingRequests,
                   sessionRestoreAttempts, saveTimer>>
    /\ UNCHANGED <<liveHandles, rcVars, rsInit, opVars, directPc>>

\* client.on('error'): attemptReconnect()
OnError ==
    /\ CanEmit
    /\ isClientReady' = FALSE
    /\ AttemptReconnect
    /\ UNCHANGED <<client, lastQrDataUrl, lastSessionState, contactCache,
                   isCleaningUp, pendingRequests, sessionRestoreAttempts, saveTimer>>
    /\ UNCHANGED <<storeVars, liveHandles, rsVars, opVars, directPc>>

\* ------------------------------------------------ restoreSession continuations
\* client.initialize() returned (ok) or threw: the listeners are attached and
\* the call waits, or restoreSession returns false.
RestoreInitDone ==
    /\ rsInit > 0
    /\ rsInit' = rsInit - 1
    /\ \E ok \in BOOLEAN :
        IF ok
        THEN /\ rsWait' = rsWait + 1
             /\ rsDelay' = rsDelay
        ELSE /\ rsWait' = rsWait
             /\ rsDelay' = rsDelay + RetryDelay(sessionRestoreAttempts)
    /\ UNCHANGED <<svcVars, storeVars, liveHandles, rcVars, opVars, directPc>>

\* The 30 s timeout of restoreSession resolves false.
RestoreTimeout ==
    /\ rsWait > 0
    /\ rsWait' = rsWait - 1
    /\ rsDelay' = rsDelay + RetryDelay(sessionRestoreAttempts)
    /\ UNCHANGED <<rsInit, svcVars, storeVars, liveHandles, rcVars, opVars, directPc>>

\* SESSION_RESTORE_DELAY elapsed: the recursive attemptSessionRestore().
RestoreRetry ==
    /\ rsDelay > 0
    /\ \E in \in [dirExists : BOOLEAN, fresh : BOOLEAN] :
        LET r == AttemptSessionRestore(in.dirExists, in.fresh) IN
        /\ r.construct => liveHandles < MaxHandles
        /\ sessionRestoreAttempts' = r.sra
        /\ client' = IF r.construct THEN "handle" ELSE client
        /\ liveHandles' = IF r.construct THEN liveHandles + 1 ELSE liveHandles
        /\ rsInit' = rsInit + r.init
        /\ rsDelay' = rsDelay - 1 + r.delay
    /\ UNCHANGED <<rsWait, isClientReady, lastQrDataUrl, lastSessionState, contactCache,
                   reconnectAttempts, isReconnecting, isCleaningUp, pendingRequests,
                   saveTimer>>
    /\ UNCHANGED <<storeVars, rcVars, opVars, directPc>>

\* ------------------------------------------------------------------ operations
Settled(o) == opState[o] \in {"resolved", "rejected"}
Started(o) == opState[o] \in {"resolving", "sending", "resolved", "rejected"}

\* The operation sendMessage hands to handleRequest, run up to its first
\* suspension: getClient, the readiness check, then either resolveContactJid
\* suspends on the handle ("resolving"), or the address is known at once and
\* client.sendMessage is issued ("sending"), or the operation throws ("throw").
RunOperation(o, route) ==
    /\ GetClient
    /\ opRoute' = [opRoute EXCEPT ![o] = route]
    /\ IF ~isClientReady
       THEN /\ opState' = [opState EXCEPT ![o] = "rejected"]
            /\ opError' = [opError EXCEPT ![o] = "NOT_READY"]
       ELSE \E path \in {"resolving", "sending", "throw"} :
            IF path = "throw"
            THEN /\ opState' = [opState EXCEPT ![o] = "rejected"]
                 /\ opError' = [opError EXCEPT ![o] = "OP_ERROR"]
            ELSE /\ opState' = [opState EXCEPT ![o] = path]
                 /\ opError' = opError

\* handleRequest with the recovery check dropped: the operation runs at once.
GateNoQueue ==
    IF isCleaningUp THEN "reject" ELSE "run"

\* handleRequest with its two checks in the other order.
GateQueueFirst ==
    IF isReconnecting THEN "queue"
    ELSE IF isCleaningUp THEN "reject"
    ELSE "run"

\* The decision of handleRequest: reject during a cleanup, else queue during
\* a recovery, else run the operation.
Gate ==
    IF isCleaningUp THEN "reject"
    ELSE IF isReconnecting THEN "queue"
    ELSE "run"

\* handleRequest(operation), called by sendMessage.
HandleRequest ==
    /\ nextOp \in Ops
    /\ nextOp' = nextOp + 1
    /\ IF Gate = "reject"
       THEN /\ opState' = [opState EXCEPT ![nextOp] = "rejected"]
            /\ opError' = [opError EXCEPT ![nextOp] = "CLIENT_CLEANUP"]
            /\ UNCHANGED <<opRoute, client, liveHandles, pendingRequests>>
       ELSE IF Gate = "queue"
       THEN /\ pendingRequests' = Append(pendingRequests, nextOp)
            /\ opState' = [opState EXCEPT ![nextOp] = "queued"]
            /\ UNCHANGED <<opError, opRoute, client, liveHandles>>
       ELSE /\ GetClientGuard
            /\ RunOperation(nextOp, "gate")
            /\ UNCHANGED pendingRequests
    /\ UNCHANGED <<isClientReady, lastQrDataUrl, lastSessionState, contactCache,
                   reconnectAttempts, isReconnecting, isCleaningUp,
                   sessionRestoreAttempts, saveTimer>>
    /\ UNCHANGED <<storeVars, rcVars, rsVars, directPc>>

\* A running operation of the drain loop settled: the loop goes on.
DrainStep(o) == IF draining = o THEN 0 ELSE draining

\* resolveContactJid returned inside a running operation: with an address
\* ("jid": client.sendMessage is issued), with null, or it threw.
OpResolved(o) ==
    /\ opState[o] = "resolving"
    /\ \E r \in {"jid", "null", "throw"} :
        /\ contactCache' = IF r = "throw" THEN contactCache ELSE "built"
        /\ IF r = "jid"
           THEN /\ opState' = [opState EXCEPT ![o] = "sending"]
                /\ UNCHANGED <<opError, draining>>
           ELSE /\ opState' = [opState EXCEPT ![o] = "rejected"]
                /\ opError' = [opError EXCEPT ![o] = "OP_ERROR"]
                /\ draining' = DrainStep(o)
    /\ UNCHANGED <<client, isClientReady, lastQrDataUrl, lastSessionState,
                   reconnectAttempts, isReconnecting, isCleaningUp, pendingRequests,
                   sessionRestoreAttempts, saveTimer>>
    /\ UNCHANGED <<storeVars, liveHandles, rsVars, nextOp, opRoute, directPc>>
    /\ UNCHANGED <<rcPc, validationRetries, requestsToProcess, rcOutcome, handleFault>>

\* client.sendMessage returned (ok) or threw.
OpSent(o) ==
    /\ opState[o] = "sending"
    /\ \E ok \in BOOLEAN :
        /\ opState' = [opState EXCEPT ![o] = IF ok THEN "resolved" ELSE "rejected"]
        /\ opError' = [opError EXCEPT ![o] = IF ok THEN "none" ELSE "OP_ERROR"]
    /\ draining' = DrainStep(o)
    /\ UNCHANGED <<svcVars, storeVars, liveHandles, rsVars, nextOp, opRoute, directPc>>
    /\ UNCHANGED <<rcPc, validationRetries, requestsToProcess, rcOutcome, handleFault>>

\* getUnreadMessages, getMessages, searchMessages, sendBulkMedia,
\* downloadMediaByContact and the group/contact passthroughs: getClient, the
\* readiness check (a throw when not ready), then the call on the handle.
DirectOperation ==
    /\ directPc = "idle"
    /\ GetClientGuard
    /\ GetClient
    /\ directPc' = IF isClientReady THEN "calling" ELSE "idle"
    /\ UNCHANGED <<isClientReady, lastQrDataUrl, lastSessionState, contactCache,
                   reconnectAttempts, isReconnecting, isCleaningUp, pendingRequests,
                   sessionRestoreAttempts, saveTimer>>
    /\ UNCHANGED <<storeVars, rcVars, rsVars, opVars>>

\* The awaited call of a direct operation returned or threw.
DirectReturned ==
    /\ directPc = "calling"
    /\ directPc' = "idle"
    /\ UNCHANGED <<svcVars, storeVars, liveHandles, rcVars, rsVars, opVars>>

\* ------------------------------------------------ attemptReconnect continuations
\* attemptReconnect without its finally: the throw after the last attempt
\* leaves isReconnecting set.
AttemptFailedKeepsFlag ==
    IF reconnectAttempts = MAX_RECONNECT_ATTEMPTS
    THEN /\ isReconnecting' = isReconnecting
         /\ rcPc' = "idle"
         /\ rcOutcome' = "exhausted"
         /\ UNCHANGED reconnectAttempts
    ELSE /\ reconnectAttempts' = reconnectAttempts + 1
         /\ rcPc' = "sleep"
         /\ UNCHANGED <<isReconnecting, rcOutcome>>

\* The catch block of one attempt: rethrow after the last attempt (the finally
\* clears isReconnecting), otherwise the next iteration up to its sleep.
AttemptFailed ==
    IF reconnectAttempts = MAX_RECONNECT_ATTEMPTS
    THEN /\ isReconnecting' = FALSE
         /\ rcPc' = "idle"
         /\ rcOutcome' = "exhausted"
         /\ UNCHANGED reconnectAttempts
    ELSE /\ reconnectAttempts' = reconnectAttempts + 1
         /\ rcPc' = "sleep"
         /\ UNCHANGED <<isReconnecting, rcOutcome>>

\* validateClient returned false or threw: the next probe after 2 s, or the
\* attempt fails after the third.
ProbeFailed ==
    /\ validationRetries' = validationRetries + 1
    /\ IF validationRetries + 1 < MAX_VALIDATION_RETRIES
       THEN /\ rcPc' = "retryWait"
            /\ UNCHANGED <<isReconnecting, reconnectAttempts, rcOutcome>>
       ELSE AttemptFailed

\* The backoff sleep elapsed: cleanup() up to client.destroy(), or, with no
\* handle to destroy, through to the fresh handle of getClient().
RcWake ==
    /\ rcPc = "sleep"
    /\ IF client # "null"
       THEN /\ isCleaningUp' = TRUE
            /\ rcPc' = "destroy"
            /\ UNCHANGED <<client, liveHandles, isClientReady, validationRetries>>
       ELSE /\ liveHandles < MaxHandles
            /\ client' = "handle"
            /\ liveHandles' = liveHandles + 1
            /\ isClientReady' = FALSE
            /\ rcPc' = "validate"
            /\ validationRetries' = 0
            /\ UNCHANGED isCleaningUp
    /\ UNCHANGED <<lastQrDataUrl, lastSessionState, contactCache, reconnectAttempts,
                   isReconnecting, pendingRequests, sessionRestoreAttempts, saveTimer>>
    /\ UNCHANGED <<requestsToProcess, draining, rcOutcome, handleFault>>
    /\ UNCHANGED <<storeVars, rsVars, opVars, directPc>>

\* cleanup() without the finally that clears isCleaningUp.
RcDestroyDoneKeepsFlag ==
    /\ rcPc = "destroy"
    /\ UNCHANGED isCleaningUp
    /\ \E ok \in BOOLEAN :
        IF ok
        THEN /\ client' = "handle"
             /\ liveHandles' = liveHandles
             /\ isClientReady' = FALSE
             /\ rcPc' = "validate"
             /\ validationRetries' = 0
             /\ UNCHANGED <<isReconnecting, reconnectAttempts, rcOutcome, handleFault>>
        ELSE /\ handleFault' = TRUE
             /\ AttemptFailed
             /\ UNCHANGED <<client, liveHandles, isClientReady, validationRetries>>
    /\ UNCHANGED <<lastQrDataUrl, lastSessionState, contactCache, pendingRequests,
                   sessionRestoreAttempts, saveTimer>>
    /\ UNCHANGED <<requestsToProcess, draining>>
    /\ UNCHANGED <<storeVars, rsVars, opVars, directPc>>

\* client.destroy() returned (ok): client = null, isClientReady = false, then
\* getClient() constructs the fresh handle; or it threw and the attempt fails.
RcDestroyDone ==
    /\ rcPc = "destroy"
    /\ isCleaningUp' = FALSE
    /\ \E ok \in BOOLEAN :
        IF ok
        THEN /\ client' = "handle"
             /\ liveHandles' = liveHandles
             /\ isClientReady' = FALSE
             /\ rcPc' = "validate"
             /\ validationRetries' = 0
             /\ UNCHANGED <<isReconnecting, reconnectAttempts, rcOutcome, handleFault>>
        ELSE /\ handleFault' = TRUE
             /\ AttemptFailed
             /\ UNCHANGED <<client, liveHandles, isClientReady, validationRetries>>
    /\ UNCHANGED <<lastQrDataUrl, lastSessionState, contactCache, pendingRequests,
                   sessionRestoreAttempts, saveTimer>>
    /\ UNCHANGED <<requestsToProcess, draining>>
    /\ UNCHANGED <<storeVars, rsVars, opVars, directPc>>

\* validateClient(newClient) up to its first suspension: false when the client
\* is not ready or has no page (pupPage), else the liveness call is awaited.
RcValidate ==
    /\ rcPc = "validate"
    /\ IF ~isClientReady
       THEN /\ ProbeFailed
            /\ UNCHANGED handleFault
       ELSE \E pupPage \in BOOLEAN :
            IF pupPage
            THEN /\ rcPc' = "probe"
                 /\ UNCHANGED <<validationRetries, isReconnecting, reconnectAttempts,
                                rcOutcome, handleFault>>
            ELSE /\ handleFault' = TRUE
                 /\ ProbeFailed
    /\ UNCHANGED <<client, isClientReady, lastQrDataUrl, lastSessionState, contactCache,
                   isCleaningUp, pendingRequests, sessionRestoreAttempts, saveTimer>>
    /\ UNCHANGED <<requestsToProcess, draining>>
    /\ UNCHANGED <<storeVars, liveHandles, rsVars, opVars, directPc>>

\* The drain without `pendingRequests = []`: the snapshot stays queued.
RcProbeDoneKeepsQueue ==
    /\ rcPc = "probe"
    /\ \E ok \in BOOLEAN :
        IF ok
        THEN /\ requestsToProcess' = pendingRequests
             /\ pendingRequests' = pendingRequests
             /\ rcPc' = "drain"
             /\ draining' = 0
             /\ UNCHANGED <<validationRetries, isReconnecting, reconnectAttempts,
                            rcOutcome, handleFault>>
        ELSE /\ handleFault' = TRUE
             /\ ProbeFailed
             /\ UNCHANGED <<requestsToProcess, pendingRequests, draining>>
    /\ UNCHANGED <<client, isClientReady, lastQrDataUrl, lastSessionState, contactCache,
                   isCleaningUp, sessionRestoreAttempts, saveTimer>>
    /\ UNCHANGED <<storeVars, liveHandles, rsVars, opVars, directPc>>

\* pupPage.evaluate and getState returned: validation passed (ok) and the
\* pending queue is snapshotted and emptied, or the probe failed.
RcProbeDone ==
    /\ rcPc = "probe"
    /\ \E ok \in BOOLEAN :
        IF ok
        THEN /\ requestsToProcess' = pendingRequests
             /\ pendingRequests' = <<>>
             /\ rcPc' = "drain"
             /\ draining' = 0
             /\ UNCHANGED <<validationRetries, isReconnecting, reconnectAttempts,
                            rcOutcome, handleFault>>
        ELSE /\ handleFault' = TRUE
             /\ ProbeFailed
             /\ UNCHANGED <<requestsToProcess, pendingRequests, draining>>
    /\ UNCHANGED <<client, isClientReady, lastQrDataUrl, lastSessionState, contactCache,
                   isCleaningUp, sessionRestoreAttempts, saveTimer>>
    /\ UNCHANGED <<storeVars, liveHandles, rsVars, opVars, directPc>>

\* The 2 s between two validation probes elapsed.
RcRetryWake ==
    /\ rcPc = "retryWait"
    /\ rcPc' = "validate"
    /\ UNCHANGED <<validationRetries, requestsToProcess, draining, rcOutcome, handleFault>>
    /\ UNCHANGED <<svcVars, storeVars, liveHandles, rsVars, opVars, directPc>>

\* A drain loop that takes the newest request first.
NextRequestNewest == requestsToProcess[Len(requestsToProcess)]

\* The request the drain loop takes next.
NextRequest == Head(requestsToProcess)

\* The requests the drain loop has left after it.
RestRequests == Tail(requestsToProcess)

\* A drain loop without the try/catch around each request: an operation that
\* throws fails the attempt.
RcDrainNextThrowFailsAttempt ==
    /\ rcPc = "drain"
    /\ draining = 0
    /\ IF requestsToProcess = <<>>
       THEN /\ isReconnecting' = FALSE
            /\ rcPc' = "idle"
            /\ rcOutcome' = "success"
            /\ UNCHANGED <<requestsToProcess, draining, client, liveHandles, opVars>>
       ELSE /\ GetClientGuard
            /\ RunOperation(NextRequest, "drain")
            /\ requestsToProcess' = RestRequests
            /\ draining' = IF opState'[NextRequest] = "rejected" THEN 0 ELSE NextRequest
            /\ rcPc' = IF opState'[NextRequest] = "rejected" THEN "sleep" ELSE rcPc
            /\ UNCHANGED <<isReconnecting, rcOutcome, nextOp>>
    /\ UNCHANGED <<isClientReady, lastQrDataUrl, lastSessionState, contactCache,
                   reconnectAttempts, isCleaningUp, pendingRequests,
                   sessionRestoreAttempts, saveTimer>>
    /\ UNCHANGED <<validationRetries, handleFault>>
    /\ UNCHANGED <<storeVars, rsVars, directPc>>

\* One iteration of `for (const request of requestsToProcess)`: run the
\* operation up to its first suspension; after the last request the call
\* returns and the finally clears isReconnecting.
RcDrainNext ==
    /\ rcPc = "drain"
    /\ draining = 0
    /\ IF requestsToProcess = <<>>
       THEN /\ isReconnecting' = FALSE
            /\ rcPc' = "idle"
            /\ rcOutcome' = "success"
            /\ UNCHANGED <<requestsToProcess, draining, client, liveHandles, opVars>>
       ELSE /\ GetClientGuard
            /\ RunOperation(NextRequest, "drain")
            /\ requestsToProcess' = RestRequests
            /\ draining' = IF opState'[NextRequest] = "rejected" THEN 0 ELSE NextRequest
            /\ UNCHANGED <<isReconnecting, rcPc, rcOutcome, nextOp>>
    /\ UNCHANGED <<isClientReady, lastQrDataUrl, lastSessionState, contactCache,
                   reconnectAttempts, isCleaningUp, pendingRequests,
                   sessionRestoreAttempts, saveTimer>>
    /\ UNCHANGED <<validationRetries, handleFault>>
    /\ UNCHANGED <<storeVars, rsVars, directPc>>

\* ------------------------------------------------------------------------
\* The continuations of a running attemptReconnect.
Reconnection ==
    \/ RcWake
    \/ RcDestroyDone
    \/ RcValidate
    \/ RcProbeDone
    \/ RcRetryWake
    \/ RcDrainNext

\* Request gate and reconnection controller: the callers of the outward
\* operations, the running recovery, and the client events that start a
\* recovery or change what it reads (readiness, the attempt counter).
Next ==
    \/ Initialize /\ UNCHANGED auxVars
    \/ OnError /\ UNCHANGED auxVars
    \/ OnReady /\ UNCHANGED auxVars
    \/ OnDisconnected("LOGOUT") /\ UNCHANGED auxVars
    \/ OnAuthFailure("LOGOUT") /\ UNCHANGED auxVars
    \/ HandleRequest /\ UNCHANGED auxVars
    \/ \E o \in Ops : OpResolved(o) /\ UNCHANGED auxVars
    \/ \E o \in Ops : OpSent(o) /\ UNCHANGED auxVars
    \/ DirectOperation /\ UNCHANGED auxVars
    \/ DirectReturned /\ UNCHANGED auxVars
    \/ Reconnection /\ UNCHANGED auxVars

Spec == Init /\ [][Next]_vars

\* The scheduling the event loop guarantees: a timer that was armed fires and
\* an awaited call on the handle returns, so a continuation that is enabled
\* is eventually taken.  Client events and callers are not obliged to occur.
Fairness ==
    /\ WF_vars(Reconnection /\ UNCHANGED auxVars)
    /\ \A o \in Ops : WF_vars((OpResolved(o) \/ OpSent(o)) /\ UNCHANGED auxVars)

FairSpec == Spec /\ Fairness

\* Connection state machine: every client event, observed in lastEvent, with
\* the session restore and the recovery the events start.
NextConn ==
    \/ Initialize /\ Observed("initialize")
    \/ OnAuthenticated /\ Observed("authenticated")
    \/ \E msg \in {"LOGOUT", "other"} : OnAuthFailure(msg) /\ Observed("auth_failure")
    \/ OnDisconnected("LOGOUT") /\ Observed("disconnected_logout")
    \/ OnDisconnected("other") /\ Observed("disconnected_other")
    \/ OnReady /\ Observed("ready")
    \/ OnQr /\ Observed(IF QrIgnored THEN "qr_session" ELSE "qr_nosession")
    \/ OnError /\ Observed("error")
    \/ RestoreInitDone /\ UNCHANGED auxVars
    \/ RestoreTimeout /\ UNCHANGED auxVars
    \/ RestoreRetry /\ UNCHANGED auxVars
    \/ Reconnection /\ UNCHANGED auxVars

SpecConn == Init /\ [][NextConn]_vars

\* Session lifecycle: the events that remember, persist and invalidate the
\* session, with the debounced save of the 'session' event.
NextSession ==
    \/ Initialize /\ Observed("initialize")
    \/ OnSession /\ Observed("session")
    \/ SaveTimerFires /\ UNCHANGED auxVars
    \/ OnAuthenticated /\ Observed("authenticated")
    \/ OnReady /\ Observed("ready")
    \/ OnQr /\ Observed(IF QrIgnored THEN "qr_session" ELSE "qr_nosession")
    \/ OnDisconnected("LOGOUT") /\ Observed("disconnected_logout")
    \/ OnAuthFailure("LOGOUT") /\ Observed("auth_failure")

SpecSession == Init /\ [][NextSession]_vars

\* An event handler called clearContactCache(): the fetches in flight now hold
\* contacts asked for before the event.
Cleared ==
    /\ staleFetch' = staleFetch \cup {o \in Ops : opState[o] = "resolving"}
    /\ cacheStale' = FALSE
    /\ UNCHANGED <<lastEvent, runAttempts, fnVars, fsVars, schedVars>>

\* resolveContactJid of operation o went on after its fetch: when it stored
\* the contacts (the cache is built afterwards; with a cache built before,
\* the fetch may also have thrown and left it) the cache holds what o fetched.
Fetched(o) ==
    /\ staleFetch' = staleFetch \ {o}
    /\ IF contactCache' = "null" THEN cacheStale' = FALSE
       ELSE IF contactCache = "null" THEN cacheStale' = (o \in staleFetch)
       ELSE cacheStale' \in {cacheStale, (o \in staleFetch)}
    /\ UNCHANGED <<lastEvent, runAttempts, fnVars, fsVars, schedVars>>

\* The events that clear the contact cache, and sendMessage calls whose
\* resolveContactJid fetches the contacts.
NextCache ==
    \/ Initialize /\ UNCHANGED auxVars
    \/ OnReady /\ UNCHANGED auxVars
    \/ OnSession /\ Cleared
    \/ SaveTimerFires /\ UNCHANGED auxVars
    \/ OnAuthenticated /\ Cleared
    \/ OnDisconnected("LOGOUT") /\ Cleared
    \/ OnAuthFailure("LOGOUT") /\ Cleared
    \/ HandleRequest /\ UNCHANGED auxVars
    \/ \E o \in Ops : OpResolved(o) /\ Fetched(o)
    \/ \E o \in Ops : OpSent(o) /\ UNCHANGED auxVars

SpecCache == Init /\ [][NextCache]_vars

\* Recovery loop: one attemptReconnect call at a time, its iterations counted
\* in runAttempts, interleaved with the client events.
NextRecovery ==
    \/ Initialize /\ UNCHANGED auxVars
    \/ OnError /\ Counted
    \/ OnReady /\ UNCHANGED auxVars
    \/ OnDisconnected("LOGOUT") /\ UNCHANGED auxVars
    \/ OnAuthFailure("LOGOUT") /\ UNCHANGED auxVars
    \/ Reconnection /\ Counted

SpecRecovery == Init /\ [][NextRecovery]_vars

\* ---------------------------------------------------------- sessionManager
\* The functions of sessionManager on the files themselves.  A call runs to
\* its end before the next one starts; copyOk, writeOk, unlinkOk say whether
\* the fs call succeeded or threw.
svcAll == <<svcVars, storeVars, liveHandles, rcVars, rsVars, opVars, directPc>>

\* A file name of the backup directory: `<prefix>-<Date.now()>.json`.
BackupName(prefix, ts) == [prefix |-> prefix, ts |-> ts]

\* copyFile / writeFile to `name`: the file is created or overwritten.
WriteFile(dir, name, data) ==
    {f \in dir : f.name # name} \cup {[name |-> name, data |-> data]}

\* String order of two file names: "invalidated-..." sorts before
\* "session-...", and two names of one prefix sort by their timestamps
\* (Date.now() has 13 digits).
NameLess(a, b) ==
    \/ a.prefix = "invalidated-session" /\ b.prefix = "session"
    \/ a.prefix = b.prefix /\ a.ts < b.ts

\* Date.now() advances.
Tick ==
    /\ clock < MaxClock
    /\ clock' = clock + 1
    /\ UNCHANGED <<sessionData, backupDir, sessionsSaved, fnVars>>
    /\ UNCHANGED <<svcAll, lastEvent, runAttempts, schedVars, cacheVars>>

\* A saveSession that overwrites the live file without backing it up.
SaveSessionNoBackup(session, copyOk, writeOk) ==
    /\ sessionsSaved < MaxSaves
    /\ session = sessionsSaved + 1
    /\ sessionsSaved' = session
    /\ sessionData' = IF writeOk THEN session ELSE sessionData
    /\ fnCall' = [fn |-> "saveSession", copyOk |-> copyOk, writeOk |-> writeOk]
    /\ fnResult' = <<writeOk>>
    /\ UNCHANGED <<backupDir, clock>>
    /\ UNCHANGED <<svcAll, lastEvent, runAttempts, schedVars, cacheVars>>

\* saveSession with a catch block that logs and does not rethrow.
SaveSessionSwallows(session, copyOk, writeOk) ==
    /\ sessionsSaved < MaxSaves
    /\ session = sessionsSaved + 1
    /\ sessionsSaved' = session
    /\ backupDir' = IF sessionData # NoFile /\ copyOk
                    THEN WriteFile(backupDir, BackupName("session", clock), sessionData)
                    ELSE backupDir
    /\ sessionData' = IF (sessionData # NoFile => copyOk) /\ writeOk
                      THEN session
                      ELSE sessionData
    /\ fnCall' = [fn |-> "saveSession", copyOk |-> copyOk, writeOk |-> writeOk]
    /\ fnResult' = <<TRUE>>
    /\ UNCHANGED clock
    /\ UNCHANGED <<svcAll, lastEvent, runAttempts, schedVars, cacheVars>>

\* saveSession(session), with the outcomes of copyFile and writeFile.  The
\* call and whether its promise resolved (<<TRUE>>) or was rejected with the
\* rethrown error (<<FALSE>>) are recorded.
SaveSession(session, copyOk, writeOk) ==
    /\ sessionsSaved < MaxSaves
    /\ session = sessionsSaved + 1
    /\ sessionsSaved' = session
    /\ backupDir' = IF sessionData # NoFile /\ copyOk
                    THEN WriteFile(backupDir, BackupName("session", clock), sessionData)
                    ELSE backupDir
    /\ sessionData' = IF (sessionData # NoFile => copyOk) /\ writeOk
                      THEN session
                      ELSE sessionData
    /\ fnCall' = [fn |-> "saveSession", copyOk |-> copyOk, writeOk |-> writeOk]
    /\ fnResult' = <<(sessionData # NoFile => copyOk) /\ writeOk>>
    /\ UNCHANGED clock
    /\ UNCHANGED <<svcAll, lastEvent, runAttempts, schedVars, cacheVars>>

\* A stand-in for calculateChecksum (sha256 of the JSON text): a function of
\* the payload alone.
CalculateChecksum(data) == (31 * data + 7) % 101

\* The record a file content stands for.  Session n is a record with payload
\* n; the checksum it carries is the hash of its payload when n is odd and
\* something else when n is even.
SessionRecord(n) ==
    [data |-> n,
     checksum |-> IF n % 2 = 1 THEN CalculateChecksum(n) ELSE CalculateChecksum(n) + 1,
     version |-> "1.0"]

\* validateSessionData(session), for a record with all its fields.
ValidateSessionData(session) ==
    /\ CalculateChecksum(session.data) = session.checksum
    /\ session.version = "1.0"

\* loadSession(): what it returns for the files as they are, <<>> for null
\* and <<session>> for the session parsed from the file.
LoadSession == IF sessionData = NoFile THEN <<>> ELSE <<sessionData>>

\* An invalidateSession that backs the live file up and leaves it in place.
InvalidateKeepsFile(copyOk, unlinkOk) ==
    /\ backupDir' = IF sessionData # NoFile /\ copyOk
                    THEN WriteFile(backupDir, BackupName("invalidated-session", clock),
                                   sessionData)
                    ELSE backupDir
    /\ fnCall' = [fn |-> "invalidateSession", copyOk |-> copyOk, unlinkOk |-> unlinkOk]
    /\ fnResult' = <<sessionData # NoFile => copyOk>>
    /\ UNCHANGED <<sessionData, clock, sessionsSaved>>
    /\ UNCHANGED <<svcAll, lastEvent, runAttempts, schedVars, cacheVars>>

\* invalidateSession(), with the outcomes of copyFile and unlink; recorded
\* as saveSession is.
InvalidateSessionFile(copyOk, unlinkOk) ==
    /\ backupDir' = IF sessionData # NoFile /\ copyOk
                    THEN WriteFile(backupDir, BackupName("invalidated-session", clock),
                                   sessionData)
                    ELSE backupDir
    /\ sessionData' = IF sessionData # NoFile /\ copyOk /\ unlinkOk
                      THEN NoFile
                      ELSE sessionData
    /\ fnCall' = [fn |-> "invalidateSession", copyOk |-> copyOk, unlinkOk |-> unlinkOk]
    /\ fnResult' = <<sessionData # NoFile => (copyOk /\ unlinkOk)>>
    /\ UNCHANGED <<clock, sessionsSaved>>
    /\ UNCHANGED <<svcAll, lastEvent, runAttempts, schedVars, cacheVars>>

\* The files restoreLatestBackup considers: the session-*.json ones.
BackupFiles == {f \in backupDir : f.name.prefix = "session"}

\* The first file of the sorted list instead of the last.
OldestBackup(files) ==
    CHOOSE f \in files : \A g \in files : g = f \/ NameLess(f.name, g.name)

\* backupFiles.sort().reverse()[0]
LatestBackup(files) ==
    CHOOSE f \in files : \A g \in files : g = f \/ NameLess(g.name, f.name)

\* restoreLatestBackup()
RestoreLatestBackup(writeOk) ==
    /\ IF BackupFiles = {}
       THEN /\ fnResult' = <<FALSE>>
            /\ UNCHANGED sessionData
       ELSE /\ fnResult' = <<writeOk>>
            /\ sessionData' = IF writeOk THEN LatestBackup(BackupFiles).data
                              ELSE sessionData
    /\ fnCall' = [fn |-> "restoreLatestBackup"]
    /\ UNCHANGED <<backupDir, clock, sessionsSaved>>
    /\ UNCHANGED <<svcAll, lastEvent, runAttempts, schedVars, cacheVars>>

\* Successive saveSession calls.
NextSaves ==
    \/ Tick
    \/ \E session \in 1..MaxSaves, copyOk, writeOk \in BOOLEAN :
          SaveSession(session, copyOk, writeOk)

SpecSaves == Init /\ [][NextSaves]_vars

\* Every function of the session store, in any order.
NextStore ==
    \/ clock < MaxStoreClock /\ Tick
    \/ \E session \in 1..MaxStoreSaves, copyOk, writeOk \in BOOLEAN :
          SaveSession(session, copyOk, writeOk)
    \/ \E copyOk, unlinkOk \in BOOLEAN : InvalidateSessionFile(copyOk, unlinkOk)
    \/ \E writeOk \in BOOLEAN : RestoreLatestBackup(writeOk)

SpecStore == Init /\ [][NextStore]_vars

\* ------------------------------------------------------------ pure functions
Min(a, b) == IF a < b THEN a ELSE b

\* A backoff without the cap.
ReconnectDelayUncapped(n, jitter) ==
    RECONNECT_BASE_DELAY * 2^(n - 1) + jitter

\* The delay of attempt n: Math.min(BASE * Math.pow(2, n - 1), MAX) plus
\* jitter, the value of Math.random() * RECONNECT_JITTER in whole ms.
ReconnectDelay(n, jitter) ==
    Min(RECONNECT_BASE_DELAY * 2^(n - 1), RECONNECT_MAX_DELAY) + jitter

\* The values Math.random() * RECONNECT_JITTER takes, in whole ms.
Jitters == 0..(RECONNECT_JITTER - 1)

\* An attempt of the loop computes its delay.
InitDelay ==
    /\ InitService
    /\ InitStore
    /\ InitSched
    /\ fnCall \in [fn : {"reconnectDelay"}, attempt : 1..MAX_RECONNECT_ATTEMPTS,
                    jitter : Jitters]
    /\ fnResult = NoResult

ComputeDelay ==
    /\ fnCall.fn = "reconnectDelay"
    /\ fnResult = NoResult
    /\ fnResult' = <<ReconnectDelay(fnCall.attempt, fnCall.jitter)>>
    /\ UNCHANGED <<svcVars, storeVars, liveHandles, rcVars, rsVars, opVars, directPc,
                   lastEvent, runAttempts, fnCall, fsVars, schedVars,
                   cacheVars>>

SpecDelay == InitDelay /\ [][ComputeDelay]_vars

\* Strings are sequences of characters.
Digits == {"0", "1", "2", "3", "4", "5", "6", "7", "8", "9"}
Null == <<"null">>

\* String.prototype.trim
RECURSIVE TrimStart(_)
TrimStart(str) ==
    IF str # <<>> /\ Head(str) = " " THEN TrimStart(Tail(str)) ELSE str

RECURSIVE TrimEnd(_)
TrimEnd(str) ==
    IF str # <<>> /\ str[Len(str)] = " "
    THEN TrimEnd(SubSeq(str, 1, Len(str) - 1))
    ELSE str

Trim(str) == TrimEnd(TrimStart(str))

\* String.prototype.startsWith
StartsWith(str, prefix) ==
    Len(str) >= Len(prefix) /\ SubSeq(str, 1, Len(prefix)) = prefix

\* normalizeIndianNumber(input)
NormalizeIndianNumber(input) ==
    LET num == Trim(input)
    IN IF Len(num) = 10 THEN <<"9", "1">> \o num
       ELSE IF Len(num) = 12 /\ StartsWith(num, <<"9", "1">>) THEN num
       ELSE IF Len(num) = 13 /\ StartsWith(num, <<"+", "9", "1">>) THEN Tail(num)
       ELSE Null

\* The inputs: a prefix, n characters that are digits except possibly the
\* one at position p, and spaces around them.
Pad(n) == [i \in 1..n |-> " "]
Body(n, p) == [i \in 1..n |-> IF i = p THEN "a" ELSE <<"9", "8", "7">>[(i % 3) + 1]]
Prefixes == {<<>>, <<"9", "1">>, <<"+", "9", "1">>, <<"+", "1", "9">>}
NumberInputs ==
    {Pad(l) \o pre \o Body(n, p) \o Pad(r) :
        l \in 0..MaxPad, r \in 0..MaxPad, pre \in Prefixes,
        n \in 0..MaxBody, p \in 0..MaxBody}

InitNormalize ==
    /\ InitService
    /\ InitStore
    /\ InitSched
    /\ fnCall \in [fn : {"normalizeIndianNumber"}, input : NumberInputs]
    /\ fnResult = NoResult

Normalize ==
    /\ fnCall.fn = "normalizeIndianNumber"
    /\ fnResult = NoResult
    /\ fnResult' = <<NormalizeIndianNumber(fnCall.input)>>
    /\ UNCHANGED <<svcVars, storeVars, liveHandles, rcVars, rsVars, opVars, directPc,
                   lastEvent, runAttempts, fnCall, fsVars, schedVars,
                   cacheVars>>

SpecNormalize == InitNormalize /\ [][Normalize]_vars

\* ------------------------------------------------------- resolveContactJid
\* String.prototype.toLowerCase, on the letters the inputs use.
Lower(c) ==
    CASE c = "A" -> "a"
      [] c = "J" -> "j"
      [] c = "S" -> "s"
      [] OTHER -> c

ToLowerCase(str) == [i \in 1..Len(str) |-> Lower(str[i])]

\* `${number}@c.us`
Jid(number) == number \o <<"@c.us">>
Throw == <<"throw">>

\* The contacts client.getContacts() can return: an exact match of "al", a
\* contact whose name contains it, one with a ten-letter name and one saved
\* under a phone number as its name.
TenDigits == <<"9", "8", "7", "9", "8", "7", "9", "8", "7", "9">>
JohnSmith == <<"J", "o", "h", "n", " ", "S", "m", "i", "t", "h">>
Contacts ==
    {[name |-> <<"A", "l">>, number |-> <<"9", "1", "1">>],
     [name |-> <<"A", "l", "a", "n">>, number |-> <<"9", "1", "2">>],
     [name |-> JohnSmith, number |-> <<"9", "1", "3">>],
     [name |-> TenDigits, number |-> <<"9", "1", "4">>]}

\* The identifiers asked for.
Identifiers ==
    {<<"a", "l">>, <<"A", "L">>, <<"B", "o">>, <<" ">>, TenDigits, JohnSmith}

\* newCache: contact.name.toLowerCase() -> contact.number
NewCache(contacts) ==
    {[name |-> ToLowerCase(c.name), number |-> c.number] : c \in contacts}

\* The ages (ms) of the cache at the lookup, around CONTACT_CACHE_DURATION.
CacheAges ==
    {0, 240000, CONTACT_CACHE_DURATION - 1, CONTACT_CACHE_DURATION, 360000}

\* contactCache: "null", or the mapping with the age of its timestamp.
ContactCaches ==
    {[contacts |-> NewCache(cs), age |-> a] : cs \in SUBSET Contacts, a \in CacheAges}

\* What client.getContacts() does in one call of resolveContactJid: it
\* throws `failures` times, then returns `contacts`.
FetchOutcomes == [failures : 0..MaxFetchFailures, contacts : SUBSET Contacts]

\* The contacts the retry loop gets hold of: <<>> when every fetch it makes
\* throws, <<contacts>> otherwise.
FetchedContacts(fetch) ==
    IF fetch.failures >= MaxRetries THEN <<>> ELSE <<fetch.contacts>>

\* The retry loop without its limit: it fetches until a fetch succeeds.
FetchLoopUnbounded(retryCount, waits, fetch) ==
    [contacts |-> <<fetch.contacts>>, fetches |-> fetch.failures + 1,
     waits |-> [k \in 1..fetch.failures |-> 1000 * k]]

RECURSIVE FetchLoop(_, _, _)
\* while (retryCount < maxRetries): the fetch number retryCount + 1; a throw
\* counts, and is followed by the return of null or by the wait of
\* 1000 * retryCount ms.  The value is the contacts fetched (<<>> for the
\* return of null), the getContacts calls made and the waits.
FetchLoop(retryCount, waits, fetch) ==
    IF retryCount < fetch.failures
    THEN IF retryCount + 1 = MaxRetries
         THEN [contacts |-> <<>>, fetches |-> retryCount + 1, waits |-> waits]
         ELSE FetchLoop(retryCount + 1, Append(waits, 1000 * (retryCount + 1)), fetch)
    ELSE [contacts |-> <<fetch.contacts>>, fetches |-> retryCount + 1, waits |-> waits]

\* resolveContactJid(nameOrNumber) for the cache `cache` (<<>> for null, <<c>>
\* otherwise), isClientReady `ready`, the result `valid` of validateClient
\* and the behaviour `fetch` of getContacts.  The value is what it returns or
\* throws, the cache it leaves, whether it fetched and checked readiness, the
\* getContacts calls it made and the waits between them.  The substring
\* matches are only logged.
ResolveContactJid(nameOrNumber, cache, ready, valid, fetch) ==
    LET lowerName == ToLowerCase(nameOrNumber)
        fresh == cache # <<>> /\ cache[1].age < CONTACT_CACHE_DURATION
        cached == IF fresh
                  THEN {e \in cache[1].contacts : e.name = lowerName}
                  ELSE {}
        phone == NormalizeIndianNumber(nameOrNumber)
        Result(ret, c, r, n, w) ==
            [ret |-> ret, cache |-> c, fetched |-> n > 0, checkedReady |-> r,
             fetches |-> n, waits |-> w]
    IN IF Trim(nameOrNumber) = <<>> THEN Result(Null, cache, FALSE, 0, <<>>)
       ELSE IF cached # {}
       THEN Result(Jid((CHOOSE e \in cached : TRUE).number), cache, FALSE, 0, <<>>)
       ELSE IF phone # Null THEN Result(Jid(phone), cache, FALSE, 0, <<>>)
       ELSE IF ~ready \/ ~valid THEN Result(Throw, cache, TRUE, 0, <<>>)
       ELSE LET loop == FetchLoop(0, <<>>, fetch) IN
            IF loop.contacts = <<>>
            THEN Result(Null, cache, TRUE, loop.fetches, loop.waits)
            ELSE LET contacts == loop.contacts[1]
                     newCache == <<[contacts |-> NewCache(contacts), age |-> 0]>>
                     matched == {c \in contacts : ToLowerCase(c.name) = lowerName}
                 IN IF matched # {}
                    THEN Result(Jid((CHOOSE c \in matched : TRUE).number), newCache,
                                TRUE, loop.fetches, loop.waits)
                    ELSE Result(Null, newCache, TRUE, loop.fetches, loop.waits)

InitResolve ==
    /\ InitService
    /\ InitStore
    /\ InitSched
    /\ fnCall \in [fn : {"resolveContactJid"},
                    nameOrNumber : Identifiers,
                    cache : {<<>>} \cup {<<c>> : c \in ContactCaches},
                    ready : BOOLEAN, valid : BOOLEAN,
                    fetch : FetchOutcomes]
    /\ fnResult = NoResult

Resolve ==
    /\ fnCall.fn = "resolveContactJid"
    /\ fnResult = NoResult
    /\ fnResult' = <<ResolveContactJid(fnCall.nameOrNumber, fnCall.cache, fnCall.ready,
                                       fnCall.valid, fnCall.fetch)>>
    /\ UNCHANGED <<svcVars, storeVars, liveHandles, rcVars, rsVars, opVars, directPc,
                   lastEvent, runAttempts, fnCall, fsVars, schedVars,
                   cacheVars>>

SpecResolve == InitResolve /\ [][Resolve]_vars

\* ------------------------------------------- persistent scheduled messages
\* schedulePersistentMessage, scheduleSendJob and the reload at startup.  The
\* durable list is the JSON array of SCHEDULED_DB_PATH; every read and write
\* of it is awaited, so a call is one action per stretch between two awaits.
\* The reload runs while the module is imported and is taken as finished
\* before the first call of an export.
notSched == <<svcAll, lastEvent, runAttempts, fnVars, fsVars, cacheVars>>

\* loadScheduledMessages(): the parsed file, [] when the read fails.
LoadScheduledMessages(readOk) == IF readOk THEN scheduledDb ELSE <<>>

\* saveScheduledMessages(messages): the file afterwards; a failed write is
\* logged and not rethrown.
SaveScheduledMessages(messages, writeOk) == IF writeOk THEN messages ELSE scheduledDb

\* all.filter(m => m.id !== id)
WithoutMsg(all, id) == SelectSeq(all, LAMBDA m : m.id # id)

\* scheduleSendJob without the check of the delay.
ScheduleSendJobAlways(armed, msg) == armed \cup {msg}

\* scheduleSendJob(msg): the armed timers afterwards; no timer when the
\* delay sendAt - Date.now() is not positive.
ScheduleSendJob(armed, msg) ==
    IF msg.sendAt - schedNow <= 0 THEN armed ELSE armed \cup {msg}

RECURSIVE ScheduleAll(_, _)
\* for (const msg of messages) scheduleSendJob(msg)
ScheduleAll(armed, messages) ==
    IF messages = <<>> THEN armed
    ELSE ScheduleAll(ScheduleSendJob(armed, Head(messages)), Tail(messages))

\* Date.now() advances.
SchedTick ==
    /\ schedNow < MaxSchedClock
    /\ schedNow' = schedNow + 1
    /\ UNCHANGED <<running, scheduledDb, timers, jobPc, jobAll, jobOp, spCall, spReturn,
                   nextMsg, sendCount, boots>>

\* schedulePersistentMessage(to, message, date) up to its first await: a date
\* that is not in the future throws, else the message gets its id.
SchedulePersistentMessage(sendAt) ==
    /\ running
    /\ spCall.pc = "idle"
    /\ nextMsg \in Msgs
    /\ IF sendAt <= schedNow
       THEN /\ spReturn' = "throw"
            /\ UNCHANGED <<spCall, nextMsg>>
       ELSE /\ spCall' = [pc |-> "load", msg |-> [id |-> nextMsg, sendAt |-> sendAt],
                          all |-> <<>>]
            /\ nextMsg' = nextMsg + 1
            /\ spReturn' = "none"
    /\ UNCHANGED <<running, scheduledDb, timers, jobPc, jobAll, jobOp, schedNow, sendCount, boots>>

\* ... loadScheduledMessages() returned: all.push(msg), the write is issued.
ScheduleLoaded(readOk) ==
    /\ spCall.pc = "load"
    /\ spCall' = [spCall EXCEPT !.pc = "save",
                                !.all = Append(LoadScheduledMessages(readOk), spCall.msg)]
    /\ UNCHANGED <<running, scheduledDb, timers, jobPc, jobAll, jobOp, spReturn, schedNow,
                   nextMsg, sendCount, boots>>

\* ... saveScheduledMessages(all) returned: scheduleSendJob(msg), then the
\* call returns {success: true, id}.
ScheduleSaved(writeOk) ==
    /\ spCall.pc = "save"
    /\ scheduledDb' = SaveScheduledMessages(spCall.all, writeOk)
    /\ timers' = ScheduleSendJob(timers, spCall.msg)
    /\ spCall' = NoSchedule
    /\ spReturn' = "success"
    /\ UNCHANGED <<running, jobPc, jobAll, jobOp, schedNow, nextMsg, sendCount, boots>>

\* The timer of scheduleSendJob fires: the callback calls sendMessage.  The
\* operation that call submits is recorded by the specification.
TimerFires(msg) ==
    /\ running
    /\ msg \in timers
    /\ schedNow >= msg.sendAt
    /\ timers' = timers \ {msg}
    /\ jobPc' = [jobPc EXCEPT ![msg.id] = "send"]
    /\ sendCount' = [sendCount EXCEPT ![msg.id] = @ + 1]
    /\ UNCHANGED <<running, scheduledDb, jobAll, spCall, spReturn, schedNow, nextMsg, boots>>

\* await sendMessage(...) resolved or threw: finally, the list is loaded.
SendSettled(id) ==
    /\ jobPc[id] = "send"
    /\ jobOp[id] # 0 => Settled(jobOp[id])
    /\ jobPc' = [jobPc EXCEPT ![id] = "load"]
    /\ UNCHANGED <<running, scheduledDb, timers, jobAll, jobOp, spCall, spReturn, schedNow,
                   nextMsg, sendCount, boots>>

\* ... loadScheduledMessages() returned to the callback.
JobLoaded(id, readOk) ==
    /\ jobPc[id] = "load"
    /\ jobAll' = [jobAll EXCEPT ![id] = LoadScheduledMessages(readOk)]
    /\ jobPc' = [jobPc EXCEPT ![id] = "save"]
    /\ UNCHANGED <<running, scheduledDb, timers, jobOp, spCall, spReturn, schedNow,
                   nextMsg, sendCount, boots>>

\* ... saveScheduledMessages(all.filter(...)) returned: the callback ends.
JobSaved(id, writeOk) ==
    /\ jobPc[id] = "save"
    /\ scheduledDb' = SaveScheduledMessages(WithoutMsg(jobAll[id], id), writeOk)
    /\ jobPc' = [jobPc EXCEPT ![id] = "idle"]
    /\ jobAll' = [jobAll EXCEPT ![id] = <<>>]
    /\ UNCHANGED <<running, timers, jobOp, spCall, spReturn, schedNow, nextMsg, sendCount, boots>>

\* The process dies: timers, callbacks and calls in flight are gone, the
\* file stays.
Crash ==
    /\ running
    /\ boots < MaxBoots
    /\ running' = FALSE
    /\ timers' = {}
    /\ jobPc' = [m \in Msgs |-> "idle"]
    /\ jobAll' = [m \in Msgs |-> <<>>]
    /\ spCall' = NoSchedule
    /\ spReturn' = "none"
    /\ UNCHANGED <<scheduledDb, jobOp, schedNow, nextMsg, sendCount, boots>>

\* The process starts: restoreScheduledMessagesOnStartup.
RestoreScheduledMessagesOnStartup(readOk) ==
    /\ ~running
    /\ running' = TRUE
    /\ boots' = boots + 1
    /\ timers' = ScheduleAll({}, LoadScheduledMessages(readOk))
    /\ UNCHANGED <<scheduledDb, jobPc, jobAll, jobOp, spCall, spReturn, schedNow, nextMsg,
                   sendCount>>

SendAts == 0..MaxSchedClock

\* The scheduler alone: sendMessage is left to settle either way.
NextSched ==
    \/ SchedTick /\ UNCHANGED notSched
    \/ \E sendAt \in SendAts : SchedulePersistentMessage(sendAt) /\ UNCHANGED notSched
    \/ \E readOk \in BOOLEAN : ScheduleLoaded(readOk) /\ UNCHANGED notSched
    \/ \E writeOk \in BOOLEAN : ScheduleSaved(writeOk) /\ UNCHANGED notSched
    \/ \E msg \in timers : TimerFires(msg) /\ UNCHANGED jobOp /\ UNCHANGED notSched
    \/ \E id \in Msgs : SendSettled(id) /\ UNCHANGED notSched
    \/ \E id \in Msgs, readOk \in BOOLEAN : JobLoaded(id, readOk) /\ UNCHANGED notSched
    \/ \E id \in Msgs, writeOk \in BOOLEAN : JobSaved(id, writeOk) /\ UNCHANGED notSched
    \/ Crash /\ UNCHANGED notSched
    \/ \E readOk \in BOOLEAN : RestoreScheduledMessagesOnStartup(readOk) /\ UNCHANGED notSched

SpecSched == Init /\ [][NextSched]_vars

\* The scheduler with a file that is read and written without failures and a
\* process that stays up: what is left is the interleaving of the calls of
\* schedulePersistentMessage with the timer callbacks.
NextSchedOverlap ==
    \/ SchedTick /\ UNCHANGED notSched
    \/ \E sendAt \in SendAts : SchedulePersistentMessage(sendAt) /\ UNCHANGED notSched
    \/ ScheduleLoaded(TRUE) /\ UNCHANGED notSched
    \/ ScheduleSaved(TRUE) /\ UNCHANGED notSched
    \/ \E msg \in timers : TimerFires(msg) /\ UNCHANGED jobOp /\ UNCHANGED notSched
    \/ \E id \in Msgs : SendSettled(id) /\ UNCHANGED notSched
    \/ \E id \in Msgs : JobLoaded(id, TRUE) /\ UNCHANGED notSched
    \/ \E id \in Msgs : JobSaved(id, TRUE) /\ UNCHANGED notSched

SpecSchedOverlap == Init /\ [][NextSchedOverlap]_vars

\* The scheduler on top of the service: the callback's sendMessage goes
\* through handleRequest and settles when that operation settles.  The file
\* is read and written without failures, the process stays up, and the
\* messages and the clock are bounded by MaxGateMsgs and MaxGateClock.
NextSchedGate ==
    \/ Initialize /\ UNCHANGED auxVars
    \/ OnError /\ UNCHANGED auxVars
    \/ OnReady /\ UNCHANGED auxVars
    \/ Reconnection /\ UNCHANGED auxVars
    \/ \E o \in Ops : OpResolved(o) /\ UNCHANGED auxVars
    \/ \E o \in Ops : OpSent(o) /\ UNCHANGED auxVars
    \/ schedNow < MaxGateClock /\ SchedTick /\ UNCHANGED notSched
    \/ \E sendAt \in 0..MaxGateClock :
          /\ nextMsg <= MaxGateMsgs
          /\ SchedulePersistentMessage(sendAt)
          /\ UNCHANGED notSched
    \/ ScheduleLoaded(TRUE) /\ UNCHANGED notSched
    \/ ScheduleSaved(TRUE) /\ UNCHANGED notSched
    \/ \E msg \in timers :
          /\ TimerFires(msg)
          /\ HandleRequest
          /\ jobOp' = [jobOp EXCEPT ![msg.id] = nextOp]
          /\ UNCHANGED <<lastEvent, runAttempts, fnVars, fsVars, cacheVars>>
    \/ \E id \in Msgs : SendSettled(id) /\ UNCHANGED notSched
    \/ \E id \in Msgs : JobLoaded(id, TRUE) /\ UNCHANGED notSched
    \/ \E id \in Msgs : JobSaved(id, TRUE) /\ UNCHANGED notSched

SpecSchedGate == Init /\ [][NextSchedGate]_vars

\* The event loop takes every continuation that is enabled: those of the
\* recovery and of the operations (Fairness) and those of the callback.
FairSchedGate ==
    /\ SpecSchedGate
    /\ Fairness
    /\ \A id \in Msgs :
          WF_vars((SendSettled(id) \/ JobLoaded(id, TRUE) \/ JobSaved(id, TRUE))
                  /\ UNCHANGED notSched)

TypeOK ==
    /\ client \in {"null", "handle"}
    /\ isClientReady \in BOOLEAN
    /\ reconnectAttempts \in 0..MAX_RECONNECT_ATTEMPTS
    /\ sessionRestoreAttempts \in 0..MAX_SESSION_RESTORE_ATTEMPTS
    /\ liveHandles \in 0..MaxHandles
    /\ validationRetries \in 0..MAX_VALIDATION_RETRIES
    /\ Restores \in 0..MaxRestores
    /\ rcPc \in {"idle", "sleep", "destroy", "validate", "probe", "retryWait", "drain"}
    /\ \A o \in Ops : opState[o] \in {"new", "queued", "resolving", "sending", "resolved", "rejected"}

\* ========================================================================
\* Properties
\* ========================================================================
WasQueued(o) == opState[o] = "queued" \/ opRoute[o] = "drain"
Submitting == nextOp \in Ops /\ nextOp' = nextOp + 1

\* C1: the drain runs the queued operations in enqueue order.  Operations are
\* submitted in the order of their numbers, so a was queued before b iff
\* a < b: once the drain has started b, every operation queued before b has
\* been run and its caller's promise settled.
C1_DrainIsFifo ==
    \A a, b \in Ops :
        (a < b /\ WasQueued(a) /\ opRoute[b] = "drain") => Settled(a)

\* C1 witness: a recovery succeeded and drained two queued operations.
C1_Witness ==
    /\ rcOutcome = "success"
    /\ opRoute[1] = "drain" /\ opRoute[2] = "drain"
    /\ Settled(1) /\ Settled(2)

\* C2: every operation queued during a recovery is eventually settled,
\* whether the recovery succeeds or exhausts its attempts.
C2_QueuedEventuallySettled ==
    \A o \in Ops : (opState[o] = "queued") ~> Settled(o)

\* C3: when a recovery run ends with all attempts failed, every operation
\* still pending has been rejected with the exhaustion error and the pending
\* queue is empty.
C3_ExhaustionRejectsPending ==
    (rcPc = "idle" /\ rcOutcome = "exhausted") =>
        /\ pendingRequests = <<>>
        /\ \A o \in Ops : opState[o] # "queued"

\* C4: handleRequest called during a recovery and outside a cleanup does not
\* run the operation: it appends it to the tail of pendingRequests, and the
\* caller's promise stays unsettled until the drain loop takes the operation.
C4_QueuedDuringRecovery ==
    /\ [][(Submitting /\ isReconnecting /\ ~isCleaningUp) =>
            /\ pendingRequests' = Append(pendingRequests, nextOp)
            /\ opState'[nextOp] = "queued"
            /\ opRoute'[nextOp] = "none"]_vars
    /\ [][\A o \in Ops : (opState[o] = "queued" /\ opState'[o] # "queued") =>
            (rcPc = "drain" /\ opRoute'[o] = "drain")]_vars

\* C4 witness: an operation waits in the queue of a running recovery that is
\* not in its cleanup.
C4_Witness ==
    /\ isReconnecting /\ ~isCleaningUp
    /\ Len(pendingRequests) = 2
    /\ opState[1] = "queued" /\ opState[2] = "queued"

\* C5: handleRequest called during a cleanup rejects with CLIENT_CLEANUP; the
\* operation is neither run nor queued, also while a recovery is in progress.
C5_RejectedDuringCleanup ==
    [][(Submitting /\ isCleaningUp) =>
          /\ opState'[nextOp] = "rejected"
          /\ opError'[nextOp] = "CLIENT_CLEANUP"
          /\ opRoute'[nextOp] = "none"
          /\ pendingRequests' = pendingRequests]_vars

\* C5 witness: a caller was rejected by a cleanup that runs inside a recovery.
C5_Witness ==
    /\ isCleaningUp /\ isReconnecting
    /\ \E o \in Ops : opState[o] = "rejected" /\ opError[o] = "CLIENT_CLEANUP"

\* C6: an operation submitted while the drain loop runs is executed at once,
\* so during the drain and after a successful recovery no operation waits in
\* the pending queue.
C6_LateArrivalRunsAtOnce ==
    (rcPc = "drain" \/ (rcPc = "idle" /\ rcOutcome = "success")) =>
        pendingRequests = <<>>

\* C7: every outward operation goes through handleRequest, so no operation
\* issues a call on the session handle while a recovery or a cleanup is in
\* progress.
C7_NoCallOutsideGate ==
    [][(directPc = "idle" /\ directPc' = "calling") =>
          (~isReconnecting /\ ~isCleaningUp)]_vars

\* The transition table of spec section 4.1: the state an event leads to from
\* a state; a pair the table does not list leaves the state as it is.
TableTo(ev, from) ==
    CASE ev = "initialize" /\ from = "Uninitialized" -> "Connecting"
      [] ev = "qr_nosession" /\ from = "Connecting" -> "AwaitingScan"
      [] ev = "qr_session" /\ from = "Connecting" -> "Connecting"
      [] ev = "authenticated" /\ from \in {"AwaitingScan", "Connecting"} -> "Authenticated"
      [] ev = "ready" /\ from = "Authenticated" -> "Ready"
      [] ev = "disconnected_logout" /\ from \in {"Ready", "Authenticated"} -> "Uninitialized"
      [] ev = "disconnected_other" /\ from \in {"Ready", "Authenticated"} -> "Disconnected"
      [] ev = "error" -> "Disconnected"
      [] OTHER -> from

\* C8: for every sequence of initialize calls and client events the derived
\* connection state follows the transition table.
C8_FollowsTransitionTable ==
    lastEvent.event # "none" => lastEvent.to = TableTo(lastEvent.event, lastEvent.from)

\* C9: a recovery whose handle is responsive (no teardown, liveness or status
\* call fails) succeeds: it does not end with its attempts exhausted.
C9_ResponsiveHandleRecovers ==
    (rcPc = "idle" /\ rcOutcome = "exhausted") => handleFault

\* C10: a disconnected event with a reason other than LOGOUT, received while
\* Ready or Authenticated, starts the recovery loop of attemptReconnect.
C10_DisconnectStartsRecovery ==
    (lastEvent.event = "disconnected_other" /\ lastEvent.from \in {"Ready", "Authenticated"})
        => lastEvent.recovering

C12_QrIgnoredWithSession ==
    [][(OnQr /\ lastSessionState = "auth") =>
          UNCHANGED <<isClientReady, lastQrDataUrl, lastSessionState,
                      sessionFile, invalidatedBackup>>]_vars

\* C12 witness: a qr event was ignored by a Ready service with a saved session.
C12_Witness ==
    /\ lastEvent.event = "qr_session"
    /\ lastEvent.from = "Ready" /\ lastEvent.to = "Ready"
    /\ sessionFile /\ isClientReady

\* C13: every ready event that makes the service Ready resets the
\* reconnect-attempt counter to 0 and clears the contact cache.
C13_ReadyResetsAndClears ==
    [][(OnReady /\ ~isClientReady) =>
          (reconnectAttempts' = 0 /\ contactCache' = "null")]_vars

\* C14: one recovery run of attemptReconnect begins at most
\* MAX_RECONNECT_ATTEMPTS iterations of its loop, whatever client events
\* arrive during the run.
C14_AttemptsBounded ==
    runAttempts <= MAX_RECONNECT_ATTEMPTS

\* The base delays of attempts 1..5 the spec lists.
BaseDelays == <<5000, 10000, 20000, 30000, 30000>>

\* C15: the delay of attempt n in 1..5 is min(5000 * 2^(n-1), 30000) ms plus
\* a jitter in [0, 1000): the base delays are 5000, 10000, 20000, 30000, 30000
\* and so non-decreasing, attempt 1 waits 5000..6000 ms, attempt 4 waits
\* 30000..31000 ms, and no delay exceeds 31000 ms.
C15_BackoffDelay ==
    (fnCall.fn = "reconnectDelay" /\ fnResult # NoResult) =>
        LET n == fnCall.attempt
            delay == fnResult[1]
            base == delay - fnCall.jitter
        IN /\ base = BaseDelays[n]
           /\ \A m \in 1..n : BaseDelays[m] <= base
           /\ delay >= base /\ delay < base + 1000
           /\ n = 1 => (delay >= 5000 /\ delay < 6000)
           /\ n = 4 => (delay >= 30000 /\ delay < 31000)
           /\ delay <= 31000

\* C15 witness: attempt 4 with the largest jitter waits 30999 ms.
C15_Witness ==
    /\ fnCall.fn = "reconnectDelay" /\ fnCall.attempt = 4 /\ fnCall.jitter = 999
    /\ fnResult = <<30999>>

\* C16: after any sequence of saveSession calls the backup directory holds at
\* most MAX_BACKUPS session backups; after 7 calls exactly 5 remain.
C16_AtMostFiveBackups ==
    Cardinality(BackupFiles) <= MAX_BACKUPS

\* C17: saveSession(s) that completes while the live file holds c leaves a
\* backup session-<now> with content c and the live file with s; when there
\* is no live file it creates no backup and the live file holds s.
C17_SaveBacksUpFirst ==
    [][\A s \in 1..MaxSaves :
          SaveSession(s, TRUE, TRUE) =>
             /\ sessionData' = s
             /\ IF sessionData # NoFile
                THEN [name |-> BackupName("session", clock), data |-> sessionData]
                        \in backupDir'
                ELSE backupDir' = backupDir]_vars

\* C17 witness: the second save was made over the first; the first session is
\* in a backup and the second in the live file.
C17_Witness ==
    /\ sessionsSaved = 2 /\ sessionData = 2
    /\ \E f \in BackupFiles : f.data = 1

\* C18: invalidateSession() that completes while a live file exists leaves a
\* backup invalidated-session-<now> with its content and no live file, so
\* that loadSession() returns null; without a live file it changes nothing.
C18_InvalidateBacksUpAndDeletes ==
    [][InvalidateSessionFile(TRUE, TRUE) =>
          IF sessionData # NoFile
          THEN /\ [name |-> BackupName("invalidated-session", clock),
                    data |-> sessionData] \in backupDir'
               /\ sessionData' = NoFile
               /\ LoadSession' = <<>>
          ELSE UNCHANGED <<sessionData, backupDir>>]_vars

\* C18 witness: a saved session was invalidated: its copy is in an
\* invalidated-session backup and the live file is gone.
C18_Witness ==
    /\ sessionsSaved = 1 /\ sessionData = NoFile
    /\ \E f \in backupDir : f.name.prefix = "invalidated-session" /\ f.data = 1

\* What restoreLatestBackup does when it picks among the files `files`: with
\* none it returns false and leaves the live file; otherwise the live file
\* gets the content of the file with the greatest name and it returns true.
RestoresLatestOf(files) ==
    IF files = {}
    THEN fnResult' = <<FALSE>> /\ sessionData' = sessionData
    ELSE /\ fnResult' = <<TRUE>>
         /\ \E f \in files :
               /\ \A g \in files : ~NameLess(f.name, g.name)
               /\ sessionData' = f.data

\* C19 as stated: restoreLatestBackup() picks among all the files of the
\* backup directory.
C19_RestoresLatestOfAll ==
    [][RestoreLatestBackup(TRUE) => RestoresLatestOf(backupDir)]_vars

\* C19 amended: restoreLatestBackup() picks among the backups whose name
\* starts with `session-`; the invalidated-session backups are not
\* candidates, and with only those it returns false.
C19_RestoresLatestSessionBackup ==
    [][RestoreLatestBackup(TRUE) =>
          RestoresLatestOf({f \in backupDir : f.name.prefix = "session"})]_vars

\* C19 witness: of two session backups with different contents the later one
\* was restored.
C19_Witness ==
    /\ fnCall.fn = "restoreLatestBackup" /\ fnResult = <<TRUE>>
    /\ \E f, g \in BackupFiles :
          /\ NameLess(g.name, f.name)
          /\ f.data # g.data
          /\ sessionData = f.data

AllDigits(str) == \A i \in 1..Len(str) : str[i] \in Digits

\* The phone pattern of the spec: the canonical number of a string of 10
\* digits, of 12 digits that start with 91, or of +91 and 10 digits; null for
\* every other string.
Canonical(num) ==
    IF Len(num) = 10 /\ AllDigits(num) THEN <<"9", "1">> \o num
    ELSE IF Len(num) = 12 /\ AllDigits(num) /\ StartsWith(num, <<"9", "1">>) THEN num
    ELSE IF Len(num) = 13 /\ StartsWith(num, <<"+", "9", "1">>) /\ AllDigits(Tail(num))
    THEN Tail(num)
    ELSE Null

\* C20: normalizeIndianNumber returns the canonical number exactly for the
\* inputs that match the phone pattern (spaces around the input aside) and
\* null for every other input, such as "123" or a string of one of those
\* lengths that is not made of digits.
C20_NormalizesExactlyPhones ==
    (fnCall.fn = "normalizeIndianNumber" /\ fnResult # NoResult) =>
        fnResult[1] = Canonical(Trim(fnCall.input))

\* A finished call of resolveContactJid and what it returned.
Resolved == fnCall.fn = "resolveContactJid" /\ fnResult # NoResult
IsAddress(ret) == ret # Null /\ ret # Throw

\* C21: for an identifier that matches the phone pattern resolveContactJid
\* returns the normalized number followed by @c.us, whatever the contact
\* cache holds, without a contact-list fetch or a readiness check.
C21_PhoneResolvedDirectly ==
    (Resolved /\ Canonical(Trim(fnCall.nameOrNumber)) # Null) =>
        /\ fnResult[1].ret = Jid(Canonical(Trim(fnCall.nameOrNumber)))
        /\ ~fnResult[1].fetched
        /\ ~fnResult[1].checkedReady

\* A finished lookup of a display name (an identifier that is not blank and
\* does not match the phone pattern) that the cache `fnCall.cache` holds.
NameLookup ==
    /\ Resolved
    /\ Trim(fnCall.nameOrNumber) # <<>>
    /\ Canonical(Trim(fnCall.nameOrNumber)) = Null
CachedNumbers ==
    {e.number : e \in {e \in fnCall.cache[1].contacts :
                           e.name = ToLowerCase(fnCall.nameOrNumber)}}

\* C22: a name the cache holds is answered from the cache, without a fetch,
\* while the cache is less than 5 minutes old; once the 5 minutes have passed
\* the lookup ignores the cache and (the client being ready and the fetch
\* succeeding) fetches the contact list, whose result replaces the whole
\* cache with a new build time.
C22_CacheLivesFiveMinutes ==
    (NameLookup /\ fnCall.cache # <<>> /\ CachedNumbers # {}) =>
        IF fnCall.cache[1].age < 5 * 60 * 1000
        THEN /\ fnResult[1].ret \in {Jid(n) : n \in CachedNumbers}
             /\ ~fnResult[1].fetched
             /\ fnResult[1].cache = fnCall.cache
        ELSE (fnCall.ready /\ fnCall.valid /\ FetchedContacts(fnCall.fetch) # <<>>) =>
                /\ fnResult[1].fetched
                /\ fnResult[1].cache =
                       <<[contacts |-> NewCache(fnCall.fetch.contacts), age |-> 0]>>

\* The contacts the lookup could see: those of the cache and those fetched.
SeenNames ==
    (IF fnCall.cache = <<>> THEN {} ELSE {e.name : e \in fnCall.cache[1].contacts})
        \cup (IF FetchedContacts(fnCall.fetch) = <<>> THEN {}
              ELSE {ToLowerCase(c.name) : c \in fnCall.fetch.contacts})

\* C23: resolveContactJid returns an address for a display name only when
\* some contact's name equals the identifier case-insensitively; with only
\* substring matches it returns null.
C23_OnlyExactMatches ==
    (NameLookup /\ IsAddress(fnResult[1].ret)) =>
        ToLowerCase(fnCall.nameOrNumber) \in SeenNames

\* C24: schedulePersistentMessage with a sendAt that is not strictly in the
\* future throws, leaves the durable list unchanged and arms no timer; with a
\* sendAt in the future (and the file written) it appends exactly the new
\* entry, under a fresh id, to the durable list and arms exactly one timer
\* for it.
C24_ScheduleRejectsOrArms ==
    [][/\ \A sendAt \in SendAts :
            (SchedulePersistentMessage(sendAt) /\ sendAt <= schedNow) =>
                (spReturn' = "throw" /\ UNCHANGED <<scheduledDb, timers>>)
       /\ ScheduleSaved(TRUE) =>
            /\ spReturn' = "success"
            /\ \A i \in 1..Len(scheduledDb) : scheduledDb[i].id # spCall.msg.id
            /\ scheduledDb' = Append(scheduledDb, spCall.msg)
            /\ spCall.msg \notin timers
            /\ timers' = timers \cup {spCall.msg}]_vars

\* C25: on process start every entry of the durable list gets a timer, also
\* an entry whose sendAt has already elapsed (which then fires at once and is
\* removed).
C25_ReloadArmsEveryEntry ==
    [][RestoreScheduledMessagesOnStartup(TRUE) =>
          \A i \in 1..Len(scheduledDb) : scheduledDb[i] \in timers']_vars

\* C27: for each scheduled entry sendMessage is called at most once, over
\* any sequence of schedule calls, timer fires, crashes (also between the
\* send and the removal of the entry) and restarts that reload the list.
C27_SentAtMostOnce == \A m \in Msgs : sendCount[m] <= 1

\* A restarted process whose list still holds an entry that was sent before
\* the crash, while the clock allows its timer to fire.
C27_Witness ==
    /\ running
    /\ boots >= 1
    /\ \E i \in 1..Len(scheduledDb) :
          /\ sendCount[scheduledDb[i].id] = 1
          /\ jobPc[scheduledDb[i].id] = "idle"
          /\ scheduledDb[i] \notin timers

InDb(id) == \E i \in 1..Len(scheduledDb) : scheduledDb[i].id = id

\* C26: every entry whose timer fired is eventually removed from the durable
\* list, whether its send succeeds or fails, also when the send is issued
\* while a recovery is in progress.
C26_FiredEventuallyRemoved ==
    \A id \in Msgs : (jobPc[id] = "send") ~> ~InDb(id)

\* C28: when the backup copy or the write of the session file fails in
\* saveSession, or the copy or the removal in invalidateSession, the call
\* ends with the error (its promise is rejected); when the backup copy fails
\* the live session file keeps its content.
C28_IoFailuresReported ==
    [][/\ \A s \in 1..MaxSaves, copyOk \in BOOLEAN, writeOk \in BOOLEAN :
            SaveSession(s, copyOk, writeOk) =>
                LET copyFails == sessionData # NoFile /\ ~copyOk
                IN /\ (copyFails \/ ~writeOk) => fnResult' = <<FALSE>>
                   /\ copyFails => sessionData' = sessionData
       /\ \A copyOk \in BOOLEAN, unlinkOk \in BOOLEAN :
            InvalidateSessionFile(copyOk, unlinkOk) =>
                LET copyFails == sessionData # NoFile /\ ~copyOk
                IN /\ (copyFails \/ (sessionData # NoFile /\ ~unlinkOk)) =>
                          fnResult' = <<FALSE>>
                   /\ copyFails => sessionData' = sessionData]_vars

\* A saveSession over an existing session file whose backup copy failed.
C28_Witness ==
    /\ fnCall.fn = "saveSession"
    /\ ~fnCall.copyOk
    /\ sessionData # NoFile
    /\ sessionData # sessionsSaved
    /\ fnResult = <<FALSE>>

\* C29: a call of attemptReconnect made while a recovery is running (here by
\* the error handler) returns at once: the running loop keeps its position,
\* nothing is torn down, and the reconnect-attempt counter and the pending
\* queue are untouched.
C29_SingleFlight ==
    [][(OnError /\ isReconnecting) =>
          /\ UNCHANGED <<isReconnecting, reconnectAttempts, rcVars>>
          /\ UNCHANGED <<pendingRequests, client, liveHandles, isCleaningUp>>]_vars

\* An error event arrived during a recovery, which is now past its first
\* attempt.
C29_Witness ==
    /\ lastEvent.event = "error"
    /\ lastEvent.from = "Disconnected"
    /\ isReconnecting
    /\ reconnectAttempts >= 2
    /\ rcPc # "sleep"

\* C30 (as stated): a recovery and a cleanup are never in progress at the
\* same time, isReconnecting and isCleaningUp are never both true.
C30_NeverBoth == ~(isReconnecting /\ isCleaningUp)

\* C30 (amended): a cleanup is in progress exactly while a running recovery
\* awaits its teardown step; there is no cleanup outside a recovery.
C30_CleanupOnlyInsideRecovery ==
    /\ isCleaningUp <=> rcPc = "destroy"
    /\ isCleaningUp => isReconnecting

\* The teardown of a recovery attempt after the first is being awaited.
C30_Witness == isCleaningUp /\ isReconnecting /\ reconnectAttempts >= 2

\* The states an operation passes through, in order: it is submitted, may
\* wait in the queue, is run (resolving, sending) and is settled.
OpRank(st) ==
    CASE st = "new" -> 0
      [] st = "queued" -> 1
      [] st = "resolving" -> 2
      [] st = "sending" -> 3
      [] OTHER -> 4

\* C31: an operation queued by handleRequest is executed at most once and
\* its caller's promise is settled at most once: once it has been started it
\* is never queued or started again, and once settled its outcome stays.
C31_QueuedRunAndSettledOnce ==
    [][\A o \in Ops :
          /\ Settled(o) => (opState'[o] = opState[o] /\ opError'[o] = opError[o])
          /\ OpRank(opState'[o]) >= OpRank(opState[o])]_vars

\* An operation that waited through a failed attempt was run by the drain of
\* a recovery that succeeded, and is settled.
C31_Witness ==
    /\ rcOutcome = "success"
    /\ handleFault
    /\ \E o \in Ops : opRoute[o] = "drain" /\ Settled(o)

\* C32: at any time at most one session handle is live (constructed and not
\* destroyed): a new Client is stored in `client` only after the previous one
\* was destroyed.
C32_OneLiveHandle == liveHandles <= 1

\* C33: after a session, authenticated, auth_failure or disconnected event
\* the contact cache is empty and no later lookup is answered from contacts
\* fetched before the event, also when a fetch of resolveContactJid was in
\* flight at the event: a cache that is built holds contacts fetched after
\* the last such event.
C33_NoContactsFromBeforeEvent == contactCache = "built" => ~cacheStale

\* The k-th wait of the retry loop is k * 1000 ms.
WaitsGrow(waits) == \A k \in 1..Len(waits) : waits[k] = k * 1000

\* C34: resolveContactJid makes at most 3 contact-list fetches per call;
\* after the k-th failed fetch (k = 1, 2) it waits k * 1000 ms and retries;
\* after the third failure it returns null, without throwing, and leaves the
\* contact cache as it was before the call.
C34_BoundedFetchRetries ==
    Resolved =>
        /\ fnResult[1].fetches <= 3
        /\ fnResult[1].fetches > 0 =>
              /\ WaitsGrow(fnResult[1].waits)
              /\ IF fnCall.fetch.failures >= 3
                 THEN /\ fnResult[1].fetches = 3
                      /\ Len(fnResult[1].waits) = 2
                      /\ fnResult[1].ret = Null
                      /\ fnResult[1].cache = fnCall.cache
                 ELSE /\ fnResult[1].fetches = fnCall.fetch.failures + 1
                      /\ Len(fnResult[1].waits) = fnCall.fetch.failures

\* A lookup whose three fetches all threw.
C34_Witness ==
    /\ Resolved
    /\ fnCall.fetch.failures = 3
    /\ fnResult[1].fetches = 3
    /\ fnResult[1].waits = <<1000, 2000>>
    /\ fnCall.cache # <<>>

\* C35: a session record whose checksum is not the hash of its payload is
\* never treated as valid: loadSession does not return such a record and
\* restoreLatestBackup does not install one as the live session.
C35_ChecksumGuardsSession ==
    [][/\ LoadSession' # <<>> => ValidateSessionData(SessionRecord(LoadSession'[1]))
       /\ (RestoreLatestBackup(TRUE) /\ BackupFiles # {}) =>
             ValidateSessionData(SessionRecord(sessionData'))]_vars

\* C36: during the drain a queued operation that throws rejects only its own
\* caller: the loop stays in the drain with the same attempt, the other
\* operations keep their state, and the drain is left only with every
\* snapshotted request taken and the recovery successful.
C36_DrainSurvivesThrow ==
    [][/\ \A o \in Ops :
            (rcPc = "drain" /\ opRoute'[o] = "drain" /\ ~Settled(o)
                /\ opState'[o] = "rejected") =>
                /\ rcPc' = "drain"
                /\ isReconnecting'
                /\ reconnectAttempts' = reconnectAttempts
                /\ draining' = 0
                /\ \A p \in Ops \ {o} : opState'[p] = opState[p] /\ opError'[p] = opError[p]
       /\ (rcPc = "drain" /\ rcPc' # "drain") =>
            /\ requestsToProcess = <<>>
            /\ rcPc' = "idle"
            /\ rcOutcome' = "success"
            /\ ~isReconnecting']_vars

\* The drain ran an operation that threw and went on to run the next one;
\* the recovery succeeded.
C36_Witness ==
    /\ rcOutcome = "success"
    /\ opRoute[1] = "drain" /\ opState[1] = "rejected"
    /\ opRoute[2] = "drain" /\ opState[2] = "resolved"

\* C37: isReconnecting is true only while a call of attemptReconnect is
\* running: after each way the call ends (success, or the throw after the
\* fifth failed attempt) the flag is false, so handleRequest stops queueing
\* and a later trigger starts a new recovery.
C37_FlagOnlyWhileRunning ==
    /\ isReconnecting <=> rcPc # "idle"
    /\ rcPc = "idle" => Gate # "queue"

\* A recovery ended with its attempts exhausted.
C37_Witness == rcPc = "idle" /\ rcOutcome = "exhausted" /\ ~isReconnecting

\* No call of schedulePersistentMessage and no timer callback is in flight.
SchedQuiet == spCall.pc = "idle" /\ \A id \in Msgs : jobPc[id] = "idle"

\* C38: overlapping load-modify-save sequences lose no update of the durable
\* list: once the calls of schedulePersistentMessage and the timer callbacks
\* that overlapped have ended, every message that was scheduled and whose
\* send was never attempted is in the list, and every message whose callback
\* removed it is not.
C38_NoLostUpdates ==
    SchedQuiet =>
        \A id \in Msgs :
            /\ (id < nextMsg /\ sendCount[id] = 0) => InDb(id)
            /\ sendCount[id] > 0 => ~InDb(id)

\* C39: sendMessage issues client.sendMessage only while the client is ready:
\* an operation whose contact was being resolved when the client stopped
\* being ready issues no send and is rejected.
C39_SendOnlyWhileReady ==
    [][\A o \in Ops :
          /\ (opState[o] # "sending" /\ opState'[o] = "sending") => isClientReady
          /\ (opState[o] = "resolving" /\ opState'[o] # "resolving" /\ ~isClientReady) =>
                 opState'[o] = "rejected"]_vars

\* C40: the budget of session restores is per outage: a non-LOGOUT
\* disconnected or auth_failure event that arrives while no restore of an
\* earlier event is in flight starts a restore attempt (the counter is below
\* its maximum and is incremented), and the counter never exceeds 3.
C40_BudgetPerOutage ==
    [][/\ sessionRestoreAttempts' <= MAX_SESSION_RESTORE_ATTEMPTS
       /\ (/\ Restores = 0
           /\ \/ OnDisconnected("other") /\ lastEvent'.event = "disconnected_other"
              \/ OnAuthFailure("other") /\ lastEvent'.event = "auth_failure") =>
              sessionRestoreAttempts' = sessionRestoreAttempts + 1]_vars

====
